---- MODULE Spec2Model ----
(***************************************************************************)
(* Tile sources of the vector tile reader: plugin/util/tile_source.py.     *)
(* One source instance (ServerSource, MBTilesSource or DirectorySource),   *)
(* its backing store, and the callers' operations on it: load_tiles, run   *)
(* step by step so that cancel() from another thread can interleave, and   *)
(* the archive's metadata accessors.                                       *)
(***************************************************************************)
EXTENDS Integers, Sequences, FiniteSets, TLC

(***************************************************************************)
(* Bounds of the model.                                                    *)
(***************************************************************************)
\* rows the tiles table may hold for one (zoom_level, tile_column, tile_row)
MaxDup == 2
\* rows (tiles, files) the backing store holds in all
MaxRows == 2
\* largest max_tiles a caller passes
MaxCap == 2

(***************************************************************************)
(* Python values: None, int and str.  A str is the sequence of its         *)
(* characters.                                                             *)
(***************************************************************************)
None == [tag |-> "None", val |-> <<>>]

PyInt(n) == [tag |-> "int", val |-> <<n>>]

PyStr(s) == [tag |-> "str", val |-> s]

IntOf(v) == v.val[1]

\* bool(v): None, 0 and "" are false
PyTruthy(v) == IF v.tag = "int" THEN IntOf(v) # 0 ELSE v.val # <<>>

\* a key of _metadata_cache that has no entry
Unset == [tag |-> "unset", val |-> <<>>]

TMS == <<"t", "m", "s">>

XYZ == <<"x", "y", "z">>

(***************************************************************************)
(* The tile grid the model draws from.                                     *)
(***************************************************************************)
Zooms == {4, 14}

CoordSeq == << <<3, 5>>, <<5, 7>>, <<7, 9>> >>

Coords == {CoordSeq[i] : i \in 1..Len(CoordSeq)}

Slots == Zooms \X Coords

Backends == {"server", "mbtiles", "directory"}

MetaKeys == {"bounds", "scheme", "minzoom", "maxzoom",
             "name", "attribution", "crs", "maskLevel", "json"}

Tables == {"tiles", "metadata"}

VARIABLES
  kind,              \* the class of the instance
  stored,            \* the backing store's tiles: rows per (zoom, (col, row))
  metadata,          \* the archive's metadata table: name -> value
  broken,            \* the tables of the archive whose queries fail
  json,              \* the TileJSON document of a server or directory source
  cancelling,        \* self._cancelling
  conn,              \* self.conn of the archive: "none" or "open"
  cache,             \* self._metadata_cache
  pc,                \* where the load_tiles call in flight stands
  args,              \* the arguments of that call
  tiles_to_load,     \* its local tiles_to_load (rebound by the cap)
  rows,              \* the items its fetch loop runs over
  index,             \* the items the loop has passed
  tile_data_tuples,  \* its result list
  events,            \* the signals emitted by that call, in order
  ret,               \* what the last operation returned to the caller
  idleCancel,        \* cancel() was called since the last load_tiles returned
  cancelledAt,       \* len(result) when cancel() first hit the call in flight
  queries,           \* the queries, or the request URLs, the last operation sent to the store
  location,          \* self.url or self.path, and what the file system holds there
  seen               \* per accessor the model follows: the value it returned when
                     \* first called, and whether it was called again; under
                     \* "handles", the database handles the instance has open

envVars == <<kind, stored, metadata, broken, json, location>>

callVars == <<pc, args, tiles_to_load, rows, index, tile_data_tuples, events>>

vars == <<kind, stored, metadata, broken, json, cancelling, conn, cache,
          pc, args, tiles_to_load, rows, index, tile_data_tuples, events,
          ret, idleCancel, cancelledAt, queries, location, seen>>

(***************************************************************************)
(* Helpers on sequences.                                                   *)
(***************************************************************************)
Range(s) == {s[i] : i \in 1..Len(s)}

RECURSIVE Sum(_, _)
Sum(f, S) == IF S = {} THEN 0
             ELSE LET x == CHOOSE y \in S : TRUE IN f[x] + Sum(f, S \ {x})

RECURSIVE Flatten(_)
Flatten(ss) == IF ss = <<>> THEN <<>> ELSE Head(ss) \o Flatten(Tail(ss))

Remove(s, i) == SubSeq(s, 1, i - 1) \o SubSeq(s, i + 1, Len(s))

MinOf(S) == CHOOSE x \in S : \A y \in S : x <= y

MaxOf(S) == CHOOSE x \in S : \A y \in S : x >= y

\* the sublists of CoordSeq: lists of distinct (column, row) pairs
Requests == {SelectSeq(CoordSeq, LAMBDA c : c \in S) : S \in SUBSET Coords}

Count(es, name) == Cardinality({i \in 1..Len(es) : es[i].name = name})

Event(name, arg) == [name |-> name, arg |-> arg]

\* what an operation handed back: its name, its arguments, and the value
\* returned or the exception raised
NoRet == [op |-> "none", arg |-> <<>>, outcome |-> "none", value |-> <<>>]

Returned(op, arg, value) == [op |-> op, arg |-> arg, outcome |-> "ok", value |-> value]

Raised(op, arg, exc) == [op |-> op, arg |-> arg, outcome |-> "raised", value |-> <<exc>>]

(***************************************************************************)
(* Text conversions: str(int), int(str), and the key of the archive's      *)
(* membership predicate.                                                   *)
(***************************************************************************)
DigitChars == <<"0", "1", "2", "3", "4", "5", "6", "7", "8", "9">>

\* str(n) of a non-negative int
RECURSIVE DecimalText(_)
DecimalText(n) == IF n < 10 THEN <<DigitChars[n + 1]>>
                  ELSE Append(DecimalText(n \div 10), DigitChars[(n % 10) + 1])

DigitValue(ch) == (CHOOSE d \in 1..10 : DigitChars[d] = ch) - 1

RECURSIVE ParseInt(_)
ParseInt(s) == IF s = <<>> THEN 0
               ELSE 10 * ParseInt(SubSeq(s, 1, Len(s) - 1)) + DigitValue(s[Len(s)])

\* "{};{}".format(x[0], x[1]), and tile_column || ";" || tile_row
CoordKey(col, row) == DecimalText(col) \o <<";">> \o DecimalText(row)

\* old occurs in s at position i
StartsAt(s, old, i) ==
  /\ i + Len(old) - 1 <= Len(s)
  /\ \A j \in 1..Len(old) : s[i + j - 1] = old[j]

\* s.replace(old, new): every occurrence, left to right, without rescanning
RECURSIVE Replace(_, _, _)
Replace(s, old, new) ==
  IF s = <<>> THEN <<>>
  ELSE IF StartsAt(s, old, 1)
       THEN new \o Replace(SubSeq(s, Len(old) + 1, Len(s)), old, new)
       ELSE <<Head(s)>> \o Replace(Tail(s), old, new)

\* the position of the first ch in s, or 0
IndexOf(s, ch) ==
  IF \E i \in 1..Len(s) : s[i] = ch
  THEN CHOOSE i \in 1..Len(s) : s[i] = ch /\ \A j \in 1..(i - 1) : s[j] # ch
  ELSE 0

\* s.split(ch)
RECURSIVE SplitOn(_, _)
SplitOn(s, ch) ==
  IF IndexOf(s, ch) = 0 THEN <<s>>
  ELSE <<SubSeq(s, 1, IndexOf(s, ch) - 1)>>
       \o SplitOn(SubSeq(s, IndexOf(s, ch) + 1, Len(s)), ch)

(***************************************************************************)
(* The collaborators outside tile_source.py.                               *)
(***************************************************************************)
\* tile identity: scheme, zoom, column, row
VectorTile(scheme, zoom_level, x, y) ==
  [scheme |-> scheme, zoom_level |-> zoom_level, column |-> x, row |-> y]

\* raw tile bytes held by the store for copy k of a tile
TileData(zoom_level, col, row, k) == <<zoom_level, col, row, k>>

\* squared distance (doubled coordinates) of c from the centre of the candidates
CenterDist(c, tiles) ==
  LET xs == {tiles[i][1] : i \in 1..Len(tiles)}
      ys == {tiles[i][2] : i \in 1..Len(tiles)}
      dx == 2 * c[1] - MinOf(xs) - MaxOf(xs)
      dy == 2 * c[2] - MinOf(ys) - MaxOf(ys)
  IN dx * dx + dy * dy

RECURSIVE CenterOrder(_, _)
CenterOrder(rest, all) ==
  IF rest = <<>> THEN <<>>
  ELSE LET n == CHOOSE i \in 1..Len(rest) : \A j \in 1..Len(rest) :
                    \/ CenterDist(rest[i], all) < CenterDist(rest[j], all)
                    \/ CenterDist(rest[i], all) = CenterDist(rest[j], all) /\ i <= j
       IN <<rest[n]>> \o CenterOrder(Remove(rest, n), all)

\* the lists the selector may return: the nr_of_tiles candidates nearest the
\* centre, or, when cancelled while selecting, the part chosen so far
get_tiles_from_center(nr_of_tiles, available_tiles, should_cancel) ==
  LET n == IF nr_of_tiles < Len(available_tiles) THEN nr_of_tiles ELSE Len(available_tiles)
      full == SubSeq(CenterOrder(available_tiles, available_tiles), 1, n)
  IN IF should_cancel THEN {SubSeq(full, 1, k) : k \in 0..Len(full)} ELSE {full}

\* pyqtSignal(int).emit(arg): PyQt accepts an argument of the declared type only
IntSignalAccepts(arg) == arg.type = "int"

(***************************************************************************)
(* The archive: queries on the SQLite file.                                *)
(***************************************************************************)
\* cur.execute(sql); cur.fetchall(): the rows, or None when the query fails
_get_from_db(table, result) ==
  IF table \in broken THEN [ok |-> FALSE, rows |-> <<>>] ELSE [ok |-> TRUE, rows |-> result]

\* "if rows:" on what _get_from_db returned
HasRows(r) == r.ok /\ r.rows # <<>>

\* self.conn after a query ran: _connect_to_db opened it if it was not open
_connect_to_db == "open"

\* a handle opened by every query, whether or not one is held
Connects_every_query(c, qs) == Len(qs)

\* the sqlite3.connect calls of an operation that starts with the handle c and
\* sends the queries qs: _get_from_db connects only "if not self.conn"
Connects(c, qs) == IF qs # <<>> /\ c = "none" THEN 1 ELSE 0

\* the handles a followed instance has open, after an operation that started
\* with the handle c and sent the queries qs
Opened(s, c, qs) ==
  IF "handles" \in DOMAIN s
  THEN [s EXCEPT !["handles"].value = PyInt(IntOf(@) + Connects(c, qs))]
  ELSE s

\* the handles a followed instance has open, after close_connection() found
\* the handle c: "if self.conn: self.conn.close()"
Closed(s, c) ==
  IF "handles" \in DOMAIN s /\ c # "none"
  THEN [s EXCEPT !["handles"].value = PyInt(IntOf(@) - 1)]
  ELSE s

\* select value from metadata where name = field_name
MetadataQuery(field_name) ==
  _get_from_db("metadata",
               IF metadata[field_name] = None THEN <<>> ELSE <<metadata[field_name]>>)

_get_single_value(r) == IF HasRows(r) THEN r.rows[1] ELSE None

\* a query as it appears in the log: the table and the field or aggregate asked for
Query(table, what) == [table |-> table, what |-> what]

\* the lookup without memoization: every access queries the table again
_get_metadata_value_uncached(c, field_name, default) ==
  LET value == _get_single_value(MetadataQuery(field_name))
      v == IF PyTruthy(default) /\ ~PyTruthy(value) THEN default ELSE value
  IN [value |-> v, cache |-> [c EXCEPT ![field_name] = v],
      queries |-> <<Query("metadata", field_name)>>]

\* the value returned, the cache afterwards, and the queries sent
_get_metadata_value(c, field_name, default) ==
  IF c[field_name] # Unset
  THEN [value |-> c[field_name], cache |-> c, queries |-> <<>>]
  ELSE LET value == _get_single_value(MetadataQuery(field_name))
           v == IF PyTruthy(default) /\ ~PyTruthy(value) THEN default ELSE value
       IN [value |-> v, cache |-> [c EXCEPT ![field_name] = v],
           queries |-> <<Query("metadata", field_name)>>]

\* WHERE zoom_level = z AND tile_column || ";" || tile_row IN (...)
_get_where_clause(tiles, zoom_level, row) ==
  /\ row.zoom_level = zoom_level
  /\ CoordKey(row.tile_column, row.tile_row) \in {CoordKey(x[1], x[2]) : x \in Range(tiles)}

\* the rows of the tiles table, in table order
TableRows ==
  Flatten([i \in 1..(2 * Len(CoordSeq)) |->
     LET z == IF i <= Len(CoordSeq) THEN MinOf(Zooms) ELSE MaxOf(Zooms)
         c == CoordSeq[((i - 1) % Len(CoordSeq)) + 1]
     IN [k \in 1..stored[<<z, c>>] |->
           [zoom_level |-> z, tile_column |-> c[1], tile_row |-> c[2],
            tile_data |-> TileData(z, c[1], c[2], k)]]])

\* SELECT zoom_level, tile_column, tile_row, tile_data FROM tiles WHERE ...
SelectTiles(tiles, zoom_level) ==
  _get_from_db("tiles", SelectSeq(TableRows, LAMBDA r : _get_where_clause(tiles, zoom_level, r)))

\* a count of the rows of every zoom level
CountTiles_all_zooms(zoom_level) ==
  _get_single_value(_get_from_db("tiles", <<PyInt(Len(TableRows))>>))

\* select count(*) 'nr_of_tiles' from tiles WHERE zoom_level = z
CountTiles(zoom_level) ==
  _get_single_value(_get_from_db("tiles",
     <<PyInt(Len(SelectSeq(TableRows, LAMBDA r : r.zoom_level = zoom_level)))>>))

(***************************************************************************)
(* cancel() and load_tiles.  One load_tiles call runs as: entry (the flag  *)
(* is cleared), preparation (cap, queries, first signals), one step per    *)
(* item of the fetch loop, return.  cancel() may run between any two.      *)
(***************************************************************************)
\* a cancel() that toggles the flag instead of setting it
CancelFlagToggle == ~cancelling

\* what cancel() stores in self._cancelling
CancelFlag == TRUE

\* AbstractSource.cancel
Cancel ==
  /\ cancelling' = CancelFlag
  /\ idleCancel' = (idleCancel \/ pc = "idle")
  /\ cancelledAt' = IF pc # "idle" /\ cancelledAt = -1
                    THEN Len(tile_data_tuples) ELSE cancelledAt
  /\ UNCHANGED <<envVars, conn, cache, callVars, ret, queries, seen>>

\* a load_tiles that leaves the flag as it finds it
EntryFlagKept == cancelling

\* what the first statement of load_tiles stores in self._cancelling
EntryFlag == FALSE

\* the values of max_tiles: None or a positive int
Caps == {None} \cup {PyInt(n) : n \in 1..MaxCap}

\* load_tiles(zoom_level, tiles_to_load, max_tiles) is called, with one of the
\* lists requests
LoadTilesCalled(requests) ==
  /\ pc = "idle"
  /\ ret.op = "none"
  /\ \E z \in Zooms, ts \in requests, m \in Caps :
       /\ args' = [zoom_level |-> z, tiles_to_load |-> ts, max_tiles |-> m]
       /\ tiles_to_load' = ts
  /\ cancelling' = EntryFlag
  /\ pc' = "select"
  /\ rows' = <<>>
  /\ index' = 0
  /\ tile_data_tuples' = <<>>
  /\ events' = <<>>
  /\ ret' = NoRet
  /\ cancelledAt' = -1
  /\ queries' = <<>>
  /\ UNCHANGED <<envVars, conn, cache, idleCancel, seen>>

\* load_tiles is called with a list of distinct (column, row) pairs
LoadTilesEnter == LoadTilesCalled(Requests)

\* the call in flight ends and hands r to the caller
\* a return that leaves the source in the loading state
FinishStuck(r) ==
  /\ pc' = pc
  /\ ret' = r
  /\ idleCancel' = FALSE

Finish(r) ==
  /\ pc' = "idle"
  /\ ret' = r
  /\ idleCancel' = FALSE

\* a limit signal emitted by every call
LimitEvent_unconditional(capped) == <<Event("tile_limit_reached", 0)>>

\* self.tile_limit_reached.emit(), under the condition each backend tests
LimitEvent(capped) == IF capped THEN <<Event("tile_limit_reached", 0)>> ELSE <<>>

(***************************************************************************)
(* The remote source's request URLs.                                       *)
(***************************************************************************)
\* urllib.parse.urlparse(url).query: what follows the first "?", without a fragment
UrlQuery(url) ==
  LET nofrag == IF IndexOf(url, "#") = 0 THEN url ELSE SubSeq(url, 1, IndexOf(url, "#") - 1)
  IN IF IndexOf(nofrag, "?") = 0 THEN <<>>
     ELSE SubSeq(nofrag, IndexOf(nofrag, "?") + 1, Len(nofrag))

\* urllib.parse.parse_qs(qs), as the list of its (name, value) pairs: a pair
\* without "=" or with an empty value is dropped, "+" stands for a space
\* (the model's URLs carry no percent escapes)
parse_qs(qs) ==
  LET pairs == SplitOn(qs, "&")
      kept == SelectSeq(pairs, LAMBDA pr : IndexOf(pr, "=") # 0 /\ IndexOf(pr, "=") < Len(pr))
  IN [i \in 1..Len(kept) |->
        [name |-> Replace(SubSeq(kept[i], 1, IndexOf(kept[i], "=") - 1), <<"+">>, <<" ">>),
         value |-> Replace(SubSeq(kept[i], IndexOf(kept[i], "=") + 1, Len(kept[i])),
                           <<"+">>, <<" ">>)]]

ApiKeyName == <<"a", "p", "i", "_", "k", "e", "y">>

\* api_key = parameters["api_key"][0] if the query has one, else ""
api_key(url) ==
  LET parameters == parse_qs(UrlQuery(url))
      named == SelectSeq(parameters, LAMBDA pr : pr.name = ApiKeyName)
  IN IF named # <<>> THEN named[1].value ELSE <<>>

\* a server list without its last entry
nextzen_servers_three == <<"a", "b", "c">>

nextzen_servers == <<"a", "b", "c", "d">>

\* a request URL that gets the key appended only when the template has no place for it
load_url_append_unless_substituted(base_url, key, zoom_level, i, col, row) ==
  LET substituted ==
        Replace(Replace(Replace(Replace(Replace(base_url,
          <<"{", "z", "}">>, DecimalText(zoom_level)),
          <<"{", "x", "}">>, DecimalText(col)),
          <<"{", "y", "}">>, DecimalText(row)),
          <<"{", "a", "p", "i", "_", "k", "e", "y", "}">>, key),
          <<"{", "s", "}">>, <<nextzen_servers[(i % Len(nextzen_servers)) + 1]>>)
  IN IF key # <<>> /\ Replace(base_url, <<"{", "a", "p", "i", "_", "k", "e", "y", "}">>, key) = base_url
     THEN substituted \o <<"?", "a", "p", "i", "_", "k", "e", "y", "=">> \o key
     ELSE substituted

\* the request URL of the i-th tile (from 0) of the list
load_url(base_url, key, zoom_level, i, col, row) ==
  LET substituted ==
        Replace(Replace(Replace(Replace(Replace(base_url,
          <<"{", "z", "}">>, DecimalText(zoom_level)),
          <<"{", "x", "}">>, DecimalText(col)),
          <<"{", "y", "}">>, DecimalText(row)),
          <<"{", "a", "p", "i", "_", "k", "e", "y", "}">>, key),
          <<"{", "s", "}">>, <<nextzen_servers[(i % Len(nextzen_servers)) + 1]>>)
  IN IF key # <<>>
     THEN substituted \o <<"?", "a", "p", "i", "_", "k", "e", "y", "=">> \o key
     ELSE substituted

\* the (load_url, col, row) list ServerSource.load_tiles hands to load_tiles_async
RequestUrls(tiles, zoom_level) ==
  [n \in 1..Len(tiles) |->
     [url |-> load_url(json.tiles[1].val, api_key(location.text), zoom_level, n - 1,
                       tiles[n][1], tiles[n][2]),
      col |-> tiles[n][1], row |-> tiles[n][2]]]

\* ServerSource.load_tiles up to the call of load_tiles_async
ServerPrepare ==
  /\ pc = "select" /\ kind = "server"
  /\ LET capped == PyTruthy(args.max_tiles) /\ Len(tiles_to_load) > IntOf(args.max_tiles)
     IN \E sel \in (IF capped
                    THEN get_tiles_from_center(IntOf(args.max_tiles), tiles_to_load, cancelling)
                    ELSE {tiles_to_load}) :
          /\ tiles_to_load' = sel
          /\ rows' = [i \in 1..Len(sel) |-> [col |-> sel[i][1], row |-> sel[i][2]]]
          /\ events' = LimitEvent(capped)
                       \o <<Event("max_progress_changed", Len(RequestUrls(sel, args.zoom_level))),
                            Event("message_changed", Len(RequestUrls(sel, args.zoom_level)))>>
          /\ queries' = RequestUrls(sel, args.zoom_level)
  /\ pc' = "fetch"
  /\ UNCHANGED <<envVars, cancelling, conn, cache, args, index, tile_data_tuples,
                 ret, idleCancel, cancelledAt, seen>>

\* max_tiles < total_nr_of_tiles: Python orders ints only
PyLess(a, b) == a.tag = "int" /\ b.tag = "int" /\ IntOf(a) < IntOf(b)

\* MBTilesSource.load_tiles up to its fetch loop
MBTilesPrepare ==
  /\ pc = "select" /\ kind = "mbtiles"
  /\ \E center_tiles \in (IF args.max_tiles # None
                          THEN get_tiles_from_center(IntOf(args.max_tiles), tiles_to_load, cancelling)
                          ELSE {tiles_to_load}) :
       LET r == SelectTiles(center_tiles, args.zoom_level)
           total_nr_of_tiles == CountTiles(args.zoom_level)
       IN IF args.max_tiles # None /\ total_nr_of_tiles = None
          THEN \* int < None raises TypeError
               /\ Finish(Raised("load_tiles", <<>>, "TypeError"))
               /\ UNCHANGED <<rows, events>>
          ELSE /\ rows' = r.rows
               /\ events' = LimitEvent(args.max_tiles # None
                                       /\ PyLess(args.max_tiles, total_nr_of_tiles))
                            \o (IF HasRows(r)
                                THEN <<Event("max_progress_changed", Len(r.rows))>>
                                ELSE <<>>)
               /\ pc' = "fetch"
               /\ UNCHANGED <<ret, idleCancel>>
  /\ conn' = _connect_to_db
  /\ queries' = <<Query("tiles", "select"), Query("tiles", "count")>>
  /\ seen' = Opened(seen, conn, queries')
  /\ UNCHANGED <<envVars, cancelling, cache, args, tiles_to_load, index,
                 tile_data_tuples, cancelledAt>>

\* the argument DirectorySource.load_tiles passes to max_progress_changed.emit
DirectoryMaxProgress(tiles) == [type |-> "list", value |-> tiles]

\* DirectorySource.load_tiles up to its fetch loop
DirectoryPrepare ==
  /\ pc = "select" /\ kind = "directory"
  /\ IF args.max_tiles.tag # "int"
     THEN \* len(tiles_to_load) > None raises TypeError
          /\ Finish(Raised("load_tiles", <<>>, "TypeError"))
          /\ UNCHANGED <<tiles_to_load, rows, events>>
     ELSE LET capped == Len(tiles_to_load) > IntOf(args.max_tiles)
          IN \E sel \in (IF capped
                         THEN get_tiles_from_center(IntOf(args.max_tiles), tiles_to_load, cancelling)
                         ELSE {tiles_to_load}) :
               /\ tiles_to_load' = sel
               /\ IF IntSignalAccepts(DirectoryMaxProgress(sel))
                  THEN /\ events' = LimitEvent(capped)
                                    \o <<Event("max_progress_changed",
                                               DirectoryMaxProgress(sel).value)>>
                       /\ rows' = sel
                       /\ pc' = "fetch"
                       /\ UNCHANGED <<ret, idleCancel>>
                  ELSE \* emit() raises TypeError
                       /\ events' = LimitEvent(capped)
                       /\ Finish(Raised("load_tiles", <<>>, "TypeError"))
                       /\ UNCHANGED rows
  /\ UNCHANGED <<envVars, cancelling, conn, cache, args, index, tile_data_tuples,
                 cancelledAt, queries, seen>>

\* TileJSON.scheme() of a server or directory source
JsonScheme == json.scheme

\* one completion inside load_tiles_async, in any order, and the tile built from it
ServerFetchItem ==
  \E i \in 1..Len(rows) :
    LET u == rows[i]
        delivered == stored[<<args.zoom_level, <<u.col, u.row>>>>] > 0
        tile == VectorTile(JsonScheme, args.zoom_level, u.col, u.row)
    IN /\ rows' = Remove(rows, i)
       /\ index' = index + 1
       /\ events' = Append(events, Event("progress_changed", index + 1))
       /\ tile_data_tuples' =
            IF delivered
            THEN Append(tile_data_tuples,
                        [tile |-> tile, data |-> TileData(args.zoom_level, u.col, u.row, 1)])
            ELSE tile_data_tuples
       /\ UNCHANGED <<conn, cache, queries, seen>>

\* a tile built with the default scheme whatever the source declares
_create_tile_default_scheme(row, scheme) ==
  [tile |-> VectorTile(PyStr(TMS), row.zoom_level, row.tile_column, row.tile_row),
   data |-> row.tile_data]

\* MBTilesSource._create_tile, with scheme() resolved through the cache
_create_tile(row, scheme) ==
  [tile |-> VectorTile(scheme, row.zoom_level, row.tile_column, row.tile_row),
   data |-> row.tile_data]

\* one pass of the archive's loop over the rows
MBTilesFetchItem ==
  LET row == rows[index + 1]
      s == _get_metadata_value(cache, "scheme", PyStr(TMS))
  IN /\ tile_data_tuples' = Append(tile_data_tuples, _create_tile(row, s.value))
     /\ events' = Append(events, Event("progress_changed", index + 1))
     /\ index' = index + 1
     /\ cache' = s.cache
     /\ conn' = IF s.queries # <<>> THEN _connect_to_db ELSE conn
     /\ queries' = queries \o s.queries
     /\ seen' = Opened(seen, conn, s.queries)
     /\ UNCHANGED rows

\* one pass of the directory's loop over the tiles
DirectoryFetchItem ==
  LET t == rows[index + 1]
      tile == VectorTile(JsonScheme, args.zoom_level, t[1], t[2])
  IN /\ events' = Append(events, Event("progress_changed", index))
     /\ tile_data_tuples' =
          IF stored[<<args.zoom_level, t>>] > 0
          THEN Append(tile_data_tuples,
                      [tile |-> tile, data |-> TileData(args.zoom_level, t[1], t[2], 1)])
          ELSE tile_data_tuples
     /\ index' = index + 1
     /\ UNCHANGED <<rows, conn, cache, queries, seen>>

\* a loop that stops on cancellation only
MBTilesBreak_on_cancel_only == cancelling

\* the archive's "if self._cancelling or (max_tiles and len(...) >= max_tiles): break"
MBTilesBreak ==
  \/ cancelling
  \/ PyTruthy(args.max_tiles) /\ Len(tile_data_tuples) >= IntOf(args.max_tiles)

\* the fetch loop of the call in flight has no further pass to make
LoopOver ==
  CASE kind = "server" -> rows = <<>> \/ cancelling
    [] kind = "mbtiles" -> index >= Len(rows) \/ MBTilesBreak
    [] OTHER -> index >= Len(rows)

\* the next pass of the fetch loop
FetchItem ==
  /\ pc = "fetch"
  /\ ~LoopOver
  /\ CASE kind = "server" -> ServerFetchItem
       [] kind = "mbtiles" -> MBTilesFetchItem
       [] OTHER -> DirectoryFetchItem
  /\ UNCHANGED <<envVars, cancelling, pc, args, tiles_to_load, ret, idleCancel,
                 cancelledAt>>

\* return tile_data_tuples
LoadTilesReturn ==
  /\ pc = "fetch"
  /\ LoopOver
  /\ Finish(Returned("load_tiles", <<>>, tile_data_tuples))
  /\ UNCHANGED <<envVars, cancelling, conn, cache, args, tiles_to_load, rows, index,
                 tile_data_tuples, events, cancelledAt, queries, seen>>

\* the frame of a load_tiles call that is not running
NoCall ==
  /\ args = [zoom_level |-> 0, tiles_to_load |-> <<>>, max_tiles |-> None]
  /\ tiles_to_load = <<>>
  /\ rows = <<>>
  /\ index = 0
  /\ tile_data_tuples = <<>>
  /\ events = <<>>
  /\ cancelledAt = -1

\* the caller has taken what the last operation returned; its frame is gone
ResultTaken ==
  /\ pc = "idle"
  /\ ret.op # "none"
  /\ ret' = NoRet
  /\ args' = [zoom_level |-> 0, tiles_to_load |-> <<>>, max_tiles |-> None]
  /\ tiles_to_load' = <<>>
  /\ rows' = <<>>
  /\ index' = 0
  /\ tile_data_tuples' = <<>>
  /\ events' = <<>>
  /\ cancelledAt' = -1
  /\ queries' = <<>>
  /\ UNCHANGED <<envVars, cancelling, conn, cache, pc, idleCancel, seen>>

(***************************************************************************)
(* The sources a caller may hold, and the load specification.              *)
(***************************************************************************)
NoMetadata == [k \in MetaKeys |-> None]

\* the inventories of a backing store of the given class
Stores(k) ==
  {f \in [Slots -> 0..MaxDup] :
     /\ Sum(f, Slots) <= MaxRows
     /\ k # "mbtiles" => \A sl \in Slots : f[sl] <= 1}

\* the accessors whose first returned value the model remembers
MemoOps == {"name", "attribution", "crs", "scheme", "bounds", "mask_level",
            "min_zoom", "max_zoom"}

\* none of the accessors ops has been called yet
Unseen(ops) == [op \in ops |-> [value |-> Unset, again |-> FALSE]]

\* what calling op and getting value adds to what was seen
Seen(op, value) ==
  IF op \notin DOMAIN seen THEN seen
  ELSE IF seen[op].value = Unset
       THEN [seen EXCEPT ![op] = [value |-> value, again |-> FALSE]]
       ELSE [seen EXCEPT ![op].again = TRUE]

\* a loaded TileJSON document: the fields the sources read from self.json
TileJSON(sch, name, id, tiles) ==
  [scheme |-> PyStr(sch), name |-> name, id |-> id, tiles |-> tiles, loaded |-> TRUE,
   vector_layers |-> None, json |-> None]

\* the tile URL template of the model's documents
TileTemplate == PyStr(<<"h", "t", "t", "p", ":", "/", "/", "{", "s", "}", ".", "t", "/", "{", "z", "}", "/", "{", "x", "}", "/", "{", "y", "}", ".", "p", "b", "f">>)

\* a document that declares a scheme and a tile template, and no name
Doc(sch) == TileJSON(sch, None, None, <<TileTemplate>>)

\* self.url / self.path and the facts the constructors test about it
Place(text, isfile, isdir, sqlite, metadata_json, reachable) ==
  [text |-> text, isfile |-> isfile, isdir |-> isdir, sqlite |-> sqlite,
   metadata_json |-> metadata_json, reachable |-> reachable]

\* the place a constructed source of class k points at
Located(k) ==
  CASE k = "server" -> Place(<<"h", "t", "t", "p", "s", ":", "/", "/", "h", "o", "s", "t", "/", "t", "i", "l", "e", "s", ".", "j", "s", "o", "n">>,
                             FALSE, FALSE, FALSE, FALSE, TRUE)
    [] k = "mbtiles" -> Place(<<"/", "d", "a", "t", "a", "/", "o", "s", "m", ".", "m", "b", "t", "i", "l", "e", "s">>,
                              TRUE, FALSE, TRUE, FALSE, FALSE)
    [] OTHER -> Place(<<"/", "d", "a", "t", "a", "/", "t", "i", "l", "e", "s">>,
                      FALSE, TRUE, FALSE, TRUE, FALSE)

\* the state of a source right after construction
Constructed ==
  /\ cancelling = FALSE
  /\ conn = "none"
  /\ cache = [k \in MetaKeys |-> Unset]
  /\ pc = "idle"
  /\ NoCall
  /\ ret = NoRet
  /\ idleCancel = FALSE
  /\ queries = <<>>

Init ==
  /\ kind \in Backends
  /\ stored \in Stores(kind)
  /\ IF kind = "mbtiles"
     THEN /\ metadata \in {[NoMetadata EXCEPT !["scheme"] = s] : s \in {None, PyStr(XYZ)}}
          /\ broken \in {{}, {"tiles"}}
          /\ json = Doc(TMS)
     ELSE /\ metadata = NoMetadata
          /\ broken = {}
          /\ json \in {Doc(s) : s \in {TMS, XYZ}}
  /\ location = Located(kind)
  /\ seen = Unseen({})
  /\ Constructed

Next ==
  \/ Cancel
  \/ LoadTilesEnter
  \/ ServerPrepare
  \/ MBTilesPrepare
  \/ DirectoryPrepare
  \/ FetchItem
  \/ LoadTilesReturn
  \/ ResultTaken

Spec == Init /\ [][Next]_vars

(***************************************************************************)
(* The archive's metadata accessors.  Each returns the value, the cache    *)
(* afterwards, and the queries it sent to the store.                       *)
(***************************************************************************)
PyTuple(s) == [tag |-> "tuple", val |-> s]

PyDict(d) == [tag |-> "dict", val |-> <<d>>]

\* s.replace(" ", "").replace("[", "").replace("]", "")
StripBrackets(s) == SelectSeq(s, LAMBDA ch : ch \notin {" ", "[", "]"})

\* s.split(",")
RECURSIVE Split(_)
Split(s) ==
  IF \A i \in 1..Len(s) : s[i] # ","
  THEN <<s>>
  ELSE LET n == CHOOSE i \in 1..Len(s) : s[i] = "," /\ \A j \in 1..(i - 1) : s[j] # ","
       IN <<SubSeq(s, 1, n - 1)>> \o Split(SubSeq(s, n + 1, Len(s)))

\* float(s), on the numerals the model's archives carry: digits with an optional sign
ParseFloat(s) == IF s # <<>> /\ s[1] = "-" THEN 0 - ParseInt(Tail(s)) ELSE ParseInt(s)

\* MBTilesSource.bounds
bounds(c) ==
  LET m == _get_metadata_value(c, "bounds", None)
      parts == Split(StripBrackets(m.value.val))
  IN IF PyTruthy(m.value) /\ m.value.tag = "str"
     THEN [m EXCEPT !.value = PyTuple([i \in 1..Len(parts) |-> ParseFloat(parts[i])])]
     ELSE m

\* a scheme() that reads the metadata table on every call
scheme_reread(c) == _get_metadata_value_uncached(c, "scheme", PyStr(TMS))

\* MBTilesSource.scheme
scheme(c) == _get_metadata_value(c, "scheme", PyStr(TMS))

\* tile_helper.WORLD_BOUNDS, the longitude/latitude extent of the whole world
WORLD_BOUNDS == PyTuple(<<-180, -85, 180, 85>>)

\* tile_helper.Bounds.create: tile-grid bounds at a zoom
Bounds_create(zoom, x_min, x_max, y_min, y_max, sch) ==
  PyDict([zoom |-> zoom, x_min |-> x_min, x_max |-> x_max,
          y_min |-> y_min, y_max |-> y_max, scheme |-> sch])

\* the tile column (row) that holds a longitude (latitude) at a zoom under a scheme
TileIndexOf(axis, zoom, sch, degrees) == [tag |-> axis, val |-> <<zoom, sch, degrees>>]

\* tile_helper.get_tile_bounds(zoom, extent, scheme, source_crs="4326")
get_tile_bounds(zoom, extent, sch) ==
  Bounds_create(zoom,
                TileIndexOf("column", zoom, sch, extent.val[1]),
                TileIndexOf("column", zoom, sch, extent.val[3]),
                TileIndexOf("row", zoom, sch, extent.val[2]),
                TileIndexOf("row", zoom, sch, extent.val[4]),
                sch)

\* min(expr), max(expr) of SQL: NULL over no rows
SqlMin(S) == IF S = {} THEN None ELSE PyInt(MinOf(S))

SqlMax(S) == IF S = {} THEN None ELSE PyInt(MaxOf(S))

\* the (column, row) pairs stored at a zoom level
StoredAt(zoom) == {c \in Coords : stored[<<zoom, c>>] > 0}

\* select min(tile_column) 'x_min', ... from tiles WHERE zoom_level = z:
\* an aggregate without GROUP BY yields exactly one row
BoundsQuery(zoom_level) ==
  _get_from_db("tiles",
    <<[x_min |-> SqlMin({c[1] : c \in StoredAt(zoom_level)}),
       x_max |-> SqlMax({c[1] : c \in StoredAt(zoom_level)}),
       y_min |-> SqlMin({c[2] : c \in StoredAt(zoom_level)}),
       y_max |-> SqlMax({c[2] : c \in StoredAt(zoom_level)})]>>)

\* a scan that hands the row limits to Bounds.create in the order of the select list
_get_bounds_from_data_positional(zoom_level, sch) ==
  LET r == BoundsQuery(zoom_level)
  IN IF HasRows(r)
     THEN Bounds_create(zoom_level, r.rows[1].x_min, r.rows[1].y_min,
                        r.rows[1].x_max, r.rows[1].y_max, sch)
     ELSE None

\* MBTilesSource._get_bounds_from_data, given what scheme() returns
_get_bounds_from_data(zoom_level, sch) ==
  LET r == BoundsQuery(zoom_level)
  IN IF HasRows(r)
     THEN Bounds_create(zoom_level, r.rows[1].x_min, r.rows[1].x_max,
                        r.rows[1].y_min, r.rows[1].y_max, sch)
     ELSE None

\* MBTilesSource.bounds_tile
bounds_tile(c, zoom) ==
  LET b == bounds(c)
      s == scheme(b.cache)
      declared == IF PyTruthy(b.value)
                  THEN get_tile_bounds(zoom, b.value, s.value) ELSE None
      scanned == IF ~PyTruthy(declared)
                 THEN _get_bounds_from_data(zoom, s.value) ELSE declared
      tile_bounds == IF ~PyTruthy(scanned)
                     THEN get_tile_bounds(zoom, WORLD_BOUNDS, s.value) ELSE scanned
  IN [value |-> tile_bounds, cache |-> s.cache,
      queries |-> b.queries \o s.queries
                  \o (IF ~PyTruthy(declared) THEN <<Query("tiles", "bounds")>> ELSE <<>>)]

\* select zoom_level from tiles order by zoom_level asc|desc limit 1
_get_zoom_from_tiles_table(max_zoom) ==
  LET zs == {z \in Zooms : StoredAt(z) # {}}
  IN _get_single_value(_get_from_db("tiles",
       IF zs = {} THEN <<>>
       ELSE <<PyInt(IF max_zoom THEN MaxOf(zs) ELSE MinOf(zs))>>))

\* int(zoom) of an int or of a decimal text
PyIntOf(v) == IF v.tag = "int" THEN v ELSE PyInt(ParseInt(v.val))

\* a zoom lookup that asks the tiles table first and the metadata only after it
_get_zoom_table_first(c, max_zoom) ==
  LET field_name == IF max_zoom THEN "maxzoom" ELSE "minzoom"
      t == _get_zoom_from_tiles_table(max_zoom)
      m == _get_metadata_value(c, field_name, None)
      zoom == IF t = None THEN m.value ELSE t
      value == IF zoom # None THEN PyIntOf(zoom) ELSE zoom
  IN IF c[field_name] # Unset
     THEN [value |-> c[field_name], cache |-> c, queries |-> <<>>]
     ELSE [value |-> value, cache |-> [m.cache EXCEPT ![field_name] = value],
           queries |-> <<Query("tiles", field_name)>> \o m.queries]

\* MBTilesSource._get_zoom
_get_zoom(c, max_zoom) ==
  LET field_name == IF max_zoom THEN "maxzoom" ELSE "minzoom"
      m == _get_metadata_value(c, field_name, None)
      zoom == IF m.value = None THEN _get_zoom_from_tiles_table(max_zoom) ELSE m.value
      value == IF zoom # None THEN PyIntOf(zoom) ELSE zoom
  IN IF c[field_name] # Unset
     THEN [value |-> c[field_name], cache |-> c, queries |-> <<>>]
     ELSE [value |-> value, cache |-> [m.cache EXCEPT ![field_name] = value],
           queries |-> m.queries
                       \o (IF m.value = None THEN <<Query("tiles", field_name)>> ELSE <<>>)]

(***************************************************************************)
(* The metadata specifications: a caller reads the archive's metadata      *)
(* while the archive file changes, or becomes unreadable, behind its back. *)
(***************************************************************************)
\* a metadata accessor of the archive is called and returns r.value
Access(op, arg, r) ==
  /\ pc = "idle"
  /\ kind = "mbtiles"
  /\ ret' = Returned(op, arg, r.value)
  /\ cache' = r.cache
  /\ conn' = IF r.queries # <<>> THEN _connect_to_db ELSE conn
  /\ queries' = r.queries
  /\ seen' = Opened(Seen(op, r.value), conn, r.queries)
  /\ UNCHANGED <<envVars, cancelling, callVars, idleCancel, cancelledAt>>

CallBounds == Access("bounds", <<>>, bounds(cache))

CallBoundsTile == \E z \in Zooms : Access("bounds_tile", <<z>>, bounds_tile(cache, z))

CallScheme == Access("scheme", <<>>, scheme(cache))

CallMinZoom == Access("min_zoom", <<>>, _get_zoom(cache, FALSE))

CallMaxZoom == Access("max_zoom", <<>>, _get_zoom(cache, TRUE))

\* the text a metadata row of the model's archives holds under a name
MetaText(k) ==
  CASE k = "bounds" -> PyStr(<<"[", "-", "9", ",", " ", "2", ",", "7", ",", "5", "]">>)
    [] k = "scheme" -> PyStr(XYZ)
    [] k = "minzoom" -> PyStr(<<"4">>)
    [] k = "name" -> PyStr(<<"O", "p", "e", "n", "S", "t", "r", "e", "e", "t", "s">>)
    [] k = "attribution" -> PyStr(<<"(", "c", ")", " ", "O", "S", "M">>)
    [] k = "crs" -> PyStr(<<"E", "P", "S", "G", ":", "4", "3", "2", "6">>)
    [] k = "maskLevel" -> PyStr(<<"8">>)
    [] OTHER -> PyStr(<<"1", "2">>)

\* another program changes the archive file: the result the caller holds is stale
FileChanged ==
  /\ pc = "idle"
  /\ ret' = NoRet
  /\ queries' = <<>>
  /\ UNCHANGED <<kind, json, location, cancelling, conn, cache, callVars, idleCancel,
                 cancelledAt, seen>>

\* a metadata row with a name in keys is written or deleted
SetMetadata(keys) ==
  /\ FileChanged
  /\ \E k \in keys :
       metadata' = [metadata EXCEPT ![k] = IF metadata[k] = None THEN MetaText(k) ELSE None]
  /\ UNCHANGED <<stored, broken>>

\* a row of the tiles table is written or deleted
WriteTiles ==
  /\ FileChanged
  /\ \E sl \in Slots, n \in 0..MaxDup :
       /\ n # stored[sl]
       /\ stored' = [stored EXCEPT ![sl] = n]
       /\ stored' \in Stores(kind)
  /\ UNCHANGED <<metadata, broken>>

\* a table is dropped or damaged, or restored
BreakTable ==
  /\ FileChanged
  /\ \E t \in Tables : broken' = IF t \in broken THEN broken \ {t} ELSE broken \cup {t}
  /\ UNCHANGED <<stored, metadata>>

\* an archive source whose metadata table holds rows for some of the keys only
ArchiveWith(keys) ==
  /\ kind = "mbtiles"
  /\ stored \in Stores(kind)
  /\ metadata \in {[k \in MetaKeys |-> IF k \in S THEN MetaText(k) ELSE None] :
                     S \in SUBSET keys}
  /\ broken = {}
  /\ json = Doc(TMS)
  /\ location = Located(kind)
  /\ seen = Unseen({})
  /\ Constructed

BoundsKeys == {"bounds", "scheme"}

InitBounds == ArchiveWith(BoundsKeys)

NextBounds ==
  \/ CallBounds
  \/ CallBoundsTile
  \/ CallScheme
  \/ SetMetadata(BoundsKeys)
  \/ WriteTiles
  \/ BreakTable

\* bounds(), bounds_tile() and scheme() on an archive that changes
SpecBounds == InitBounds /\ [][NextBounds]_vars

ZoomKeys == {"minzoom", "maxzoom"}

InitZoom == ArchiveWith(ZoomKeys)

NextZoom ==
  \/ CallMinZoom
  \/ CallMaxZoom
  \/ SetMetadata(ZoomKeys)
  \/ WriteTiles
  \/ BreakTable

\* min_zoom() and max_zoom() on an archive that changes
SpecZoom == InitZoom /\ [][NextZoom]_vars

(***************************************************************************)
(* Properties of load_tiles and cancel(), checked under Spec.              *)
(***************************************************************************)
\* a load_tiles call has just handed its result (or its exception) to the caller
LoadReturned == pc = "idle" /\ ret.op = "load_tiles"

\* cancel() was called while that call was in flight
CancelledInFlight == cancelledAt # -1

\* the (column, row) pairs of the tiles of a result list, in order
CoordsOf(result) == [i \in 1..Len(result) |-> <<result[i].tile.column, result[i].tile.row>>]

\* C1: for every backend, a load_tiles call with a positive max_tiles and
\* len(tiles_to_load) > max_tiles returns at most max_tiles entries and emits
\* tile_limit_reached exactly once.
C1_CapAndLimitOnce ==
  (LoadReturned /\ args.max_tiles # None
     /\ Len(args.tiles_to_load) > IntOf(args.max_tiles))
  => /\ ret.outcome = "ok"
     /\ Len(ret.value) <= IntOf(args.max_tiles)
     /\ Count(events, "tile_limit_reached") = 1

\* C2: for every backend, load_tiles(zoom, tiles, max_tiles=None) returns
\* normally with at most len(tiles) results, each with its (column, row) in tiles
\* and its zoom equal to zoom; what the backend does not hold is absent.
C2_UncappedResult ==
  (LoadReturned /\ args.max_tiles = None)
  => /\ ret.outcome = "ok"
     /\ Len(ret.value) <= Len(args.tiles_to_load)
     /\ \A i \in 1..Len(ret.value) :
          /\ CoordsOf(ret.value)[i] \in Range(args.tiles_to_load)
          /\ ret.value[i].tile.zoom_level = args.zoom_level
          /\ stored[<<args.zoom_level, CoordsOf(ret.value)[i]>>] > 0

\* C3: in every backend, once cancel() has been called during a load_tiles call
\* in flight no further tile is appended, and the call returns normally with
\* the tiles retrieved before the cancellation.
C3_CancelStopsFetch ==
  (LoadReturned /\ CancelledInFlight)
  => /\ ret.outcome = "ok"
     /\ Len(ret.value) = cancelledAt

\* C4: when cancel() is called during a load_tiles call in flight, the call
\* raises no exception and returns a list no longer than the number of
\* progress_changed events emitted during the call.
C4_CancelledResultWithinProgress ==
  (LoadReturned /\ CancelledInFlight)
  => /\ ret.outcome = "ok"
     /\ Len(ret.value) <= Count(events, "progress_changed")

\* the number of tiles a call that is never cancelled returns
FullCount ==
  CASE kind = "server" ->
         Cardinality({i \in 1..Len(tiles_to_load) :
                        stored[<<args.zoom_level, tiles_to_load[i]>>] > 0})
    [] kind = "mbtiles" ->
         IF PyTruthy(args.max_tiles) /\ IntOf(args.max_tiles) < Len(rows)
         THEN IntOf(args.max_tiles) ELSE Len(rows)
    [] OTHER -> 0

\* C5: load_tiles clears the cancellation flag at entry, so cancel() calls made
\* while the source is idle have no effect on the next load_tiles: as long as
\* cancel() is not called during the call the flag stays clear in it, and the
\* call returns the full result.
C5_IdleCancelHasNoEffect ==
  /\ (pc # "idle" /\ ~CancelledInFlight) => ~cancelling
  /\ (LoadReturned /\ ret.outcome = "ok" /\ ~CancelledInFlight)
       => Len(ret.value) = FullCount

\* a call that was preceded by an idle cancel(), was not cancelled in flight,
\* and has fetched a tile
C5_Witness ==
  /\ pc = "fetch"
  /\ idleCancel
  /\ ~CancelledInFlight
  /\ Len(tile_data_tuples) > 0

\* C6: the cancellation flag is monotonic within a load_tiles call: the only
\* step that clears it is the reset at the entry of a load_tiles call, and the
\* step that sets it, cancel(), changes nothing else of the source.
C6_FlagMonotonic ==
  [][/\ (cancelling /\ ~cancelling') => (pc = "idle" /\ pc' = "select")
     /\ (~cancelling /\ cancelling') => UNCHANGED <<envVars, conn, cache, callVars, ret, queries>>
    ]_vars

\* a call that was cancelled in flight has returned with the flag still set
C6_Witness == LoadReturned /\ CancelledInFlight /\ cancelling

\* the requested tiles of the directory call whose files exist, in request order
PresentFiles ==
  SelectSeq(tiles_to_load, LAMBDA t : stored[<<args.zoom_level, t>>] > 0)

\* C10: directory load_tiles: a requested (column, row) whose file does not
\* exist contributes nothing and raises no error, and every requested
\* coordinate whose file exists is still returned.
C10_MissingFileSkipped ==
  (LoadReturned /\ kind = "directory" /\ Len(PresentFiles) < Len(tiles_to_load))
  => /\ ret.outcome = "ok"
     /\ CoordsOf(ret.value) = PresentFiles

(***************************************************************************)
(* Properties of the archive's bounds, checked under SpecBounds.           *)
(***************************************************************************)
\* the tile-grid bounds spanned by the tiles stored at a zoom
StoredBounds(zoom) ==
  [x_min |-> PyInt(MinOf({c[1] : c \in StoredAt(zoom)})),
   x_max |-> PyInt(MaxOf({c[1] : c \in StoredAt(zoom)})),
   y_min |-> PyInt(MinOf({c[2] : c \in StoredAt(zoom)})),
   y_max |-> PyInt(MaxOf({c[2] : c \in StoredAt(zoom)}))]

\* the x/y limits of a tile-grid bounds value
Limits(b) == [x_min |-> b.val[1].x_min, x_max |-> b.val[1].x_max,
              y_min |-> b.val[1].y_min, y_max |-> b.val[1].y_max]

\* bounds_tile(zoom) has just returned and the scan of that zoom can succeed
ScannedCase(zoom) ==
  /\ ret.op = "bounds_tile"
  /\ ret.arg = <<zoom>>
  /\ "tiles" \notin broken
  /\ StoredAt(zoom) # {}

\* C7: for an archive whose metadata has no bounds entry (none in the table and
\* none resolved by the instance), bounds_tile(zoom) at a zoom where tiles are
\* stored and readable returns exactly the minimum and maximum tile_column and
\* tile_row stored at that zoom.
C7_BoundsFromData ==
  \A z \in Zooms :
    (ScannedCase(z) /\ metadata["bounds"] = None /\ cache["bounds"] = None)
    => /\ ret.value.tag = "dict"
       /\ Limits(ret.value) = StoredBounds(z)

\* tiles (3,5) and (7,9) at zoom 4, no bounds: x 3..7, y 5..9
C7_Witness ==
  /\ ScannedCase(4)
  /\ metadata["bounds"] = None
  /\ StoredAt(4) = {<<3, 5>>, <<7, 9>>}
  /\ ret.value.tag = "dict"
  /\ Limits(ret.value) = [x_min |-> PyInt(3), x_max |-> PyInt(7),
                          y_min |-> PyInt(5), y_max |-> PyInt(9)]

\* C8: archive bounds_tile(zoom) resolves in three tiers: the declared bounds
\* whenever the instance has them; otherwise the bounds of the tiles stored at
\* that zoom; and the whole world when there are no declared bounds and no tile
\* is stored at that zoom or the scan fails.
C8_ThreeTiers ==
  \A z \in Zooms :
    (ret.op = "bounds_tile" /\ ret.arg = <<z>>)
    => IF cache["bounds"] # None
       THEN ret.value = get_tile_bounds(z, bounds(cache).value, cache["scheme"])
       ELSE IF "tiles" \notin broken /\ StoredAt(z) # {}
            THEN ret.value.tag = "dict" /\ Limits(ret.value) = StoredBounds(z)
            ELSE ret.value = get_tile_bounds(z, WORLD_BOUNDS, cache["scheme"])

(***************************************************************************)
(* Properties of the archive's zoom range, checked under SpecZoom.         *)
(***************************************************************************)
\* what the metadata table yields for a field: None when the row is absent or
\* the query fails
MetadataYield(field_name) ==
  IF "metadata" \in broken THEN None ELSE metadata[field_name]

\* what the scan of the tiles table yields: None when it is empty or fails
TableYield(max_zoom) ==
  IF "tiles" \in broken \/ \A z \in Zooms : StoredAt(z) = {}
  THEN None
  ELSE PyInt(IF max_zoom THEN MaxOf({z \in Zooms : StoredAt(z) # {}})
                         ELSE MinOf({z \in Zooms : StoredAt(z) # {}}))

\* the zoom a first access must resolve
ResolvedZoom(field_name, max_zoom) ==
  IF MetadataYield(field_name) # None
  THEN PyInt(ParseInt(MetadataYield(field_name).val))
  ELSE TableYield(max_zoom)

\* C9: archive min_zoom()/max_zoom(), when they resolve the value (first
\* access), return the metadata value minzoom/maxzoom whenever it is present,
\* whatever the tiles table holds; the minimum/maximum zoom_level of the tiles
\* table only when the metadata yields none; and None when neither yields one.
C9_ZoomPrefersMetadata ==
  /\ (ret.op = "min_zoom" /\ queries # <<>>) => ret.value = ResolvedZoom("minzoom", FALSE)
  /\ (ret.op = "max_zoom" /\ queries # <<>>) => ret.value = ResolvedZoom("maxzoom", TRUE)

\* metadata maxzoom = 12 is returned although rows at zoom 14 exist
C9_Witness ==
  /\ ret.op = "max_zoom"
  /\ queries # <<>>
  /\ metadata["maxzoom"] = PyStr(<<"1", "2">>)
  /\ StoredAt(14) # {}
  /\ ret.value = PyInt(12)

(***************************************************************************)
(* The remote source's request URLs, checked under SpecUrl: load_tiles on  *)
(* remote sources with and without an api_key in the connection URL.       *)
(***************************************************************************)
\* a piece of a tile URL template: literal text, or the placeholder {ph}
Lit(text) == [ph |-> <<>>, text |-> text]

Ph(name) == [ph |-> name, text |-> <<>>]

\* the templates of the model's TileJSON documents, piece by piece
UrlTemplates ==
  { <<Lit(<<"h", "t", "t", "p", ":", "/", "/">>), Ph(<<"s">>), Lit(<<".", "t", "/">>), Ph(<<"z">>), Lit(<<"/">>), Ph(<<"x">>),
      Lit(<<"/">>), Ph(<<"y">>), Lit(<<".", "p", "b", "f">>)>>,
    <<Lit(<<"h", "t", "t", "p", ":", "/", "/", "t", "/">>), Ph(<<"z">>), Lit(<<"/">>), Ph(<<"x">>), Lit(<<"/">>), Ph(<<"y">>),
      Lit(<<"?", "k", "=">>), Ph(ApiKeyName)>>,
    <<Lit(<<"h", "t", "t", "p", ":", "/", "/", "t", "/">>), Ph(ApiKeyName), Lit(<<"/">>), Ph(<<"z">>), Lit(<<"/">>), Ph(<<"x">>),
      Lit(<<"/">>), Ph(<<"y">>), Lit(<<"/">>), Ph(ApiKeyName)>> }

\* the text of a template
TemplateText(parts) ==
  Flatten([n \in 1..Len(parts) |->
             IF parts[n].ph = <<>> THEN parts[n].text
             ELSE <<"{">> \o parts[n].ph \o <<"}">>])

\* the connection URLs of the model, each with the api_key it carries (or none)
Connections ==
  { [text |-> <<"h", "t", "t", "p", "s", ":", "/", "/", "h", "o", "s", "t", "/", "t", "i", "l", "e", "s", ".", "j", "s", "o", "n">>, key |-> <<>>],
    [text |-> <<"h", "t", "t", "p", "s", ":", "/", "/", "h", "o", "s", "t", "/", "t", "i", "l", "e", "s", ".", "j", "s", "o", "n", "?", "v", "=", "1">>, key |-> <<>>],
    [text |-> <<"h", "t", "t", "p", "s", ":", "/", "/", "h", "o", "s", "t", "/", "t", "i", "l", "e", "s", ".", "j", "s", "o", "n", "?", "a", "p", "i", "_", "k", "e", "y", "=", "A", "B", "C">>, key |-> <<"A", "B", "C">>],
    [text |-> <<"h", "t", "t", "p", "s", ":", "/", "/", "h", "o", "s", "t", "/", "t", "i", "l", "e", "s", ".", "j", "s", "o", "n", "?", "v", "=", "1", "&", "a", "p", "i", "_", "k", "e", "y", "=", "k", "9">>, key |-> <<"k", "9">>] }

InitUrl ==
  /\ kind = "server"
  /\ stored \in {f \in Stores(kind) : Sum(f, Slots) <= 1}
  /\ metadata = NoMetadata
  /\ broken = {}
  /\ json \in {TileJSON(XYZ, None, None, <<PyStr(TemplateText(p))>>) : p \in UrlTemplates}
  /\ location \in {Place(c.text, FALSE, FALSE, FALSE, FALSE, TRUE) : c \in Connections}
  /\ seen = Unseen({})
  /\ Constructed

NextUrl ==
  \/ Cancel
  \/ LoadTilesEnter
  \/ ServerPrepare
  \/ FetchItem
  \/ LoadTilesReturn
  \/ ResultTaken

\* load_tiles and cancel on remote sources
SpecUrl == InitUrl /\ [][NextUrl]_vars

\* the text a template stands for, for the n-th tile (from 0) and the key K
Filled(parts, zoom_level, n, col, row, K) ==
  Flatten([m \in 1..Len(parts) |->
     CASE parts[m].ph = <<>> -> parts[m].text
       [] parts[m].ph = <<"z">> -> DecimalText(zoom_level)
       [] parts[m].ph = <<"x">> -> DecimalText(col)
       [] parts[m].ph = <<"y">> -> DecimalText(row)
       [] parts[m].ph = <<"s">> -> <<nextzen_servers[(n % 4) + 1]>>
       [] OTHER -> K])

\* the remote call in flight has built its request URLs
UrlsBuilt == kind = "server" /\ (pc = "fetch" \/ LoadReturned)

\* C11: remote load_tiles: when the connection URL's query string carries
\* api_key=K, every request URL has K in place of each {api_key} placeholder of
\* the template and ends with the appended text ?api_key=K; when the
\* connection URL carries no api_key, nothing is appended.
C11_ApiKeyInRequestUrls ==
  \A c \in Connections, p \in UrlTemplates :
    (UrlsBuilt /\ location.text = c.text /\ json.tiles[1].val = TemplateText(p))
    => \A n \in 1..Len(queries) :
         queries[n].url =
           Filled(p, args.zoom_level, n - 1, queries[n].col, queries[n].row, c.key)
           \o (IF c.key # <<>> THEN <<"?", "a", "p", "i", "_", "k", "e", "y", "=">> \o c.key ELSE <<>>)

\* connection URL ...?api_key=ABC, template with two {api_key}: tile (3,5) at zoom 4
C11_Witness ==
  /\ UrlsBuilt
  /\ api_key(location.text) = <<"A", "B", "C">>
  /\ Len(queries) > 0
  /\ queries[1].url = <<"h", "t", "t", "p", ":", "/", "/", "t", "/", "A", "B", "C", "/", "4", "/", "3", "/", "5", "/", "A", "B", "C", "?", "a", "p", "i", "_", "k", "e", "y", "=", "A", "B", "C">>

(***************************************************************************)
(* name() of the three sources, close_connection(), and the accessors of   *)
(* the remote and directory sources, which read the loaded document.       *)
(***************************************************************************)
\* the position of the last ch in s, or 0
LastIndexOf(s, ch) ==
  IF \E i \in 1..Len(s) : s[i] = ch
  THEN CHOOSE i \in 1..Len(s) : s[i] = ch /\ \A j \in (i + 1)..Len(s) : s[j] # ch
  ELSE 0

\* os.path.basename(path)
basename(path) == SubSeq(path, LastIndexOf(path, "/") + 1, Len(path))

\* os.path.splitext(name)[0]: without the last extension; a leading dot starts none
splitext_root(name) ==
  IF LastIndexOf(name, ".") > 1 /\ \E i \in 1..(LastIndexOf(name, ".") - 1) : name[i] # "."
  THEN SubSeq(name, 1, LastIndexOf(name, ".") - 1)
  ELSE name

\* urllib.parse.urlsplit(url)[1]: the network location after "scheme://"
urlsplit_netloc(url) ==
  LET colon == IndexOf(url, ":")
      schemed == colon > 1 /\ \A i \in 1..(colon - 1) : url[i] \notin {"/", "?", "#"}
      rest == IF schemed THEN SubSeq(url, colon + 1, Len(url)) ELSE url
      after == SubSeq(rest, 3, Len(rest))
      stops == {i \in 1..Len(after) : after[i] \in {"/", "?", "#"}}
  IN IF StartsAt(rest, <<"/", "/">>, 1)
     THEN IF stops = {} THEN after ELSE SubSeq(after, 1, MinOf(stops) - 1)
     ELSE <<>>

\* name = self.json.name(); if not name: self.json.id(); if not name: <from the location>
JsonName(derived) ==
  IF PyTruthy(json.name) THEN json.name
  ELSE IF PyTruthy(json.id) THEN json.id
       ELSE PyStr(derived)

\* ServerSource.name
ServerSource_name == JsonName(urlsplit_netloc(location.text))

\* an archive name() that asks the metadata table for the name row on each call
MBTilesSource_name_from_metadata ==
  IF PyTruthy(_get_single_value(MetadataQuery("name")))
  THEN _get_single_value(MetadataQuery("name"))
  ELSE PyStr(splitext_root(basename(location.text)))

\* MBTilesSource.name
MBTilesSource_name == PyStr(splitext_root(basename(location.text)))

\* DirectorySource.name
DirectorySource_name == JsonName(basename(location.text))

\* an accessor of a remote or directory source returns what the document holds
JsonAccess(op, value) ==
  /\ pc = "idle"
  /\ kind # "mbtiles"
  /\ ret' = Returned(op, <<>>, value)
  /\ queries' = <<>>
  /\ seen' = Seen(op, value)
  /\ UNCHANGED <<envVars, cancelling, conn, cache, callVars, idleCancel, cancelledAt>>

\* name() is called
CallName ==
  \/ kind = "server" /\ JsonAccess("name", ServerSource_name)
  \/ kind = "directory" /\ JsonAccess("name", DirectorySource_name)
  \/ Access("name", <<>>, [value |-> MBTilesSource_name, cache |-> cache, queries |-> <<>>])

\* scheme() is called, on a source of any class
CallAnyScheme == CallScheme \/ JsonAccess("scheme", JsonScheme)

\* a close_connection() that also forgets what the accessors resolved
CloseConnection_dropping_cache ==
  /\ pc = "idle"
  /\ conn' = IF kind = "mbtiles" THEN "none" ELSE conn
  /\ cache' = [k \in MetaKeys |-> Unset]
  /\ ret' = Returned("close_connection", <<>>, None)
  /\ queries' = <<>>
  /\ seen' = Closed(seen, IF kind = "mbtiles" THEN conn ELSE "none")
  /\ UNCHANGED <<envVars, cancelling, callVars, idleCancel, cancelledAt>>

\* close_connection(): the archive closes and forgets its handle, the others pass
CloseConnection ==
  /\ pc = "idle"
  /\ conn' = IF kind = "mbtiles" THEN "none" ELSE conn
  /\ ret' = Returned("close_connection", <<>>, None)
  /\ queries' = <<>>
  /\ seen' = Closed(seen, IF kind = "mbtiles" THEN conn ELSE "none")
  /\ UNCHANGED <<envVars, cancelling, cache, callVars, idleCancel, cancelledAt>>

\* the places of the model's named sources, each with the name its location stands for
Sites(k) ==
  CASE k = "server" ->
         { [text |-> <<"h", "t", "t", "p", "s", ":", "/", "/", "h", "o", "s", "t", "/", "t", "i", "l", "e", "s", ".", "j", "s", "o", "n">>, derived |-> <<"h", "o", "s", "t">>],
           [text |-> <<"h", "t", "t", "p", "s", ":", "/", "/", "t", "i", "l", "e", "s", ".", "e", "x", "a", "m", "p", "l", "e", ".", "o", "r", "g", "/", "t", ".", "j", "s", "o", "n", "?", "a", "p", "i", "_", "k", "e", "y", "=", "A", "B", "C">>, derived |-> <<"t", "i", "l", "e", "s", ".", "e", "x", "a", "m", "p", "l", "e", ".", "o", "r", "g">>] }
    [] k = "mbtiles" ->
         { [text |-> <<"/", "d", "a", "t", "a", "/", "o", "s", "m", ".", "m", "b", "t", "i", "l", "e", "s">>, derived |-> <<"o", "s", "m">>] }
    [] OTHER ->
         { [text |-> <<"/", "d", "a", "t", "a", "/", "t", "i", "l", "e", "s">>, derived |-> <<"t", "i", "l", "e", "s">>] }

NameKeys == {"name", "scheme"}

InitName ==
  /\ kind \in Backends
  /\ stored = [sl \in Slots |-> 0]
  /\ broken = {}
  /\ IF kind = "mbtiles"
     THEN /\ metadata \in {[k \in MetaKeys |-> IF k \in S THEN MetaText(k) ELSE None] :
                             S \in SUBSET {"name"}}
          /\ json = Doc(TMS)
     ELSE /\ metadata = NoMetadata
          /\ json \in {TileJSON(TMS, n, i, <<TileTemplate>>) :
                         n \in {None, PyStr(<<"S", "t", "r", "e", "e", "t", "s">>)}, i \in {None, PyStr(<<"s", "t", "r", "e", "e", "t", "s", "-", "v", "1">>)}}
  /\ location \in {Place(st.text, Located(kind).isfile, Located(kind).isdir,
                         Located(kind).sqlite, Located(kind).metadata_json,
                         Located(kind).reachable) : st \in Sites(kind)}
  /\ seen = Unseen({"name"})
  /\ Constructed

NextName ==
  \/ CallName
  \/ CallAnyScheme
  \/ Cancel
  \/ CloseConnection
  \/ kind = "mbtiles" /\ SetMetadata(NameKeys)

\* name() among other operations, on sources of the three classes
SpecName == InitName /\ [][NextName]_vars

\* the name the claimed resolution order yields: explicit name, identifier, location
ClaimedName ==
  LET explicit == IF kind = "mbtiles" THEN metadata["name"] ELSE json.name
      identifier == IF kind = "mbtiles" THEN None ELSE json.id
      site == CHOOSE st \in Sites(kind) : st.text = location.text
  IN IF explicit # None THEN explicit
     ELSE IF identifier # None THEN identifier
          ELSE PyStr(site.derived)

\* C12: for every backend, name() resolves in this order: the explicit metadata
\* name if present, else the metadata identifier, else a value derived from
\* the location (host name, file or directory base name); it never fails.
C12_NameResolution ==
  ret.op = "name" => (ret.outcome = "ok" /\ ret.value = ClaimedName)

\* C13: calling name() again on the same instance, with any other operations
\* in between, returns the value the first call returned and issues no
\* metadata query.
C13_NameIdempotent ==
  ret.op = "name" => (ret.value = seen["name"].value /\ queries = <<>>)

\* name() was called again on an archive after a query had opened the connection
C13_Witness ==
  /\ ret.op = "name"
  /\ seen["name"].again
  /\ kind = "mbtiles"
  /\ conn = "open"
  /\ cancelling

(***************************************************************************)
(* The archive's remaining metadata accessors, and memoization, checked    *)
(* under SpecMemo: a caller uses some of the accessors, in any order and   *)
(* any number of times, while metadata rows come and go and the            *)
(* connection is closed.                                                   *)
(***************************************************************************)
_DEFAULT_CRS == <<"E", "P", "S", "G", ":", "3", "8", "5", "7">>

\* MBTilesSource.attribution
attribution(c) == _get_metadata_value(c, "attribution", PyStr(<<>>))

\* MBTilesSource.crs
crs(c) == _get_metadata_value(c, "crs", PyStr(_DEFAULT_CRS))

\* MBTilesSource.mask_level
mask_level(c) == _get_metadata_value(c, "maskLevel", None)

\* the caller of this run uses the accessor op
Uses(op) == op \in DOMAIN seen

CallAttribution == Uses("attribution") /\ Access("attribution", <<>>, attribution(cache))

CallCrs == Uses("crs") /\ Access("crs", <<>>, crs(cache))

CallMaskLevel == Uses("mask_level") /\ Access("mask_level", <<>>, mask_level(cache))

CallSchemeUsed == Uses("scheme") /\ Access("scheme", <<>>, scheme(cache))

CallBoundsUsed == Uses("bounds") /\ Access("bounds", <<>>, bounds(cache))

CallMinZoomUsed == Uses("min_zoom") /\ Access("min_zoom", <<>>, _get_zoom(cache, FALSE))

CallMaxZoomUsed == Uses("max_zoom") /\ Access("max_zoom", <<>>, _get_zoom(cache, TRUE))

\* the metadata key an accessor resolves
KeyOf(op) ==
  CASE op = "mask_level" -> "maskLevel"
    [] op = "min_zoom" -> "minzoom"
    [] op = "max_zoom" -> "maxzoom"
    [] OTHER -> op

\* the accessors that go through the metadata cache
CachedOps == MemoOps \ {"name"}

\* the accessors the callers of SpecMemo use
MemoProfiles == {{"scheme", "mask_level"}, {"mask_level", "max_zoom"}, {"crs", "min_zoom"}}

\* an archive with no tile, or with one tile at the highest zoom
MemoStores ==
  {[sl \in Slots |-> 0],
   [sl \in Slots |-> IF sl = <<MaxOf(Zooms), CoordSeq[1]>> THEN 1 ELSE 0]}

InitMemo ==
  /\ kind = "mbtiles"
  /\ stored \in MemoStores
  /\ \E ops \in MemoProfiles :
       /\ seen = Unseen(ops)
       /\ metadata \in {[k \in MetaKeys |-> IF k \in S THEN MetaText(k) ELSE None] :
                          S \in SUBSET {KeyOf(op) : op \in ops}}
  /\ broken = {}
  /\ json = Doc(TMS)
  /\ location = Located(kind)
  /\ Constructed

NextMemo ==
  \/ CallSchemeUsed
  \/ CallCrs
  \/ CallMaskLevel
  \/ CallMinZoomUsed
  \/ CallMaxZoomUsed
  \/ CloseConnection
  \/ SetMetadata({KeyOf(op) : op \in DOMAIN seen})

\* memoized accessors on an archive whose metadata rows change
SpecMemo == InitMemo /\ [][NextMemo]_vars

\* the step is a call of the accessor op
Accessed(op) == ret'.op = op /\ <<ret, queries, cache, seen, conn>>' # <<ret, queries, cache, seen, conn>>

\* the queries a first access of op must send: the metadata lookup, and for
\* the zoom accessors the scan of the tiles table when the lookup yields none
FirstQueries(op) ==
  <<Query("metadata", KeyOf(op))>>
  \o (IF op \in {"min_zoom", "max_zoom"} /\ MetadataYield(KeyOf(op)) = None
      THEN <<Query("tiles", KeyOf(op))>>
      ELSE <<>>)

\* close_connection leaves every cache entry as it is
CloseKeepsCache == ret'.op = "close_connection" => cache' = cache

\* C14 as stated: on an archive, the first access of a memoized accessor sends
\* exactly one query; every later access sends none and returns the value
\* first resolved, whatever the store holds by then; close_connection leaves
\* the cache as it is.
C14_ExactlyOneQuery ==
  [][CloseKeepsCache /\
     \A op \in CachedOps \cap DOMAIN seen :
        Accessed(op) =>
          IF cache[KeyOf(op)] = Unset
          THEN Len(queries') = 1
          ELSE queries' = <<>> /\ ret'.value = seen[op].value]_vars

\* C14 amended: the first access sends the metadata lookup, followed for
\* min_zoom/max_zoom by one scan of the tiles table when the lookup yields no
\* value; every later access sends no query and returns the value first
\* resolved (None included), whatever the store holds by then;
\* close_connection leaves the cache as it is.
C14_Memoized ==
  [][CloseKeepsCache /\
     \A op \in CachedOps \cap DOMAIN seen :
        Accessed(op) =>
          IF cache[KeyOf(op)] = Unset
          THEN queries' = FirstQueries(op) /\ cache'[KeyOf(op)] = ret'.value
          ELSE queries' = <<>> /\ ret'.value = seen[op].value /\ cache' = cache]_vars

\* mask_level() is called again after a maskLevel row appeared and after the
\* connection was closed: it sends nothing and returns the None it resolved
C14_Witness ==
  /\ ret.op = "mask_level"
  /\ seen["mask_level"].again
  /\ ret.value = None
  /\ metadata["maskLevel"] # None
  /\ conn = "none"
  /\ queries = <<>>

(***************************************************************************)
(* The lifetime of a source: loads, cancels, scheme() and close_connection *)
(* in any order, while the archive's scheme row changes behind the         *)
(* instance.                                                               *)
(***************************************************************************)
\* the metadata rows the archive's lifetime specification varies
LifeKeys == {"scheme"}

\* stores with tiles at the lowest zoom only, in the first two cells
LifeStores(k) ==
  {f \in Stores(k) :
     \A sl \in Slots : f[sl] > 0 => (sl[1] = MinOf(Zooms) /\ sl[2] \in {CoordSeq[1], CoordSeq[2]})}

InitLife ==
  /\ kind \in Backends
  /\ stored \in LifeStores(kind)
  /\ broken = {}
  /\ IF kind = "mbtiles"
     THEN /\ metadata \in {[k \in MetaKeys |-> IF k \in S THEN MetaText(k) ELSE None] :
                             S \in SUBSET LifeKeys}
          /\ json = Doc(TMS)
     ELSE /\ metadata = NoMetadata
          /\ json \in {Doc(s) : s \in {TMS, XYZ}}
  /\ seen = Unseen({"scheme"})
  /\ location = Located(kind)
  /\ Constructed

NextLife ==
  \/ Next
  \/ CallAnyScheme
  \/ CloseConnection
  \/ kind = "mbtiles" /\ SetMetadata(LifeKeys)

\* a source of any class used over its lifetime
SpecLife == InitLife /\ [][NextLife]_vars

(***************************************************************************)
(* The archive's cache over its lifetime: accessors, loads, cancels and    *)
(* close_connection in any order, while metadata rows change.              *)
(***************************************************************************)
CacheKeys == {"scheme", "maxzoom"}

InitCache ==
  /\ kind = "mbtiles"
  /\ stored \in MemoStores
  /\ metadata \in {[k \in MetaKeys |-> IF k \in S THEN MetaText(k) ELSE None] :
                     S \in SUBSET CacheKeys}
  /\ broken = {}
  /\ json = Doc(TMS)
  /\ location = Located(kind)
  /\ seen = Unseen({})
  /\ Constructed

NextCache ==
  \/ CallScheme
  \/ CallMaxZoom
  \/ Cancel
  \/ LoadTilesEnter
  \/ MBTilesPrepare
  \/ FetchItem
  \/ LoadTilesReturn
  \/ ResultTaken
  \/ CloseConnection
  \/ SetMetadata(CacheKeys)

\* an archive used over its lifetime
SpecCache == InitCache /\ [][NextCache]_vars

SourceScheme == IF kind = "mbtiles" THEN cache["scheme"] ELSE JsonScheme

\* C16: scheme() returns the same value on every call during the instance's
\* lifetime, for the archive also after the metadata table changed or the
\* connection was closed, and every tile identity built by a load_tiles call
\* carries exactly that scheme.
C16_SchemeStable ==
  /\ ret.op = "scheme" => ret.value = seen["scheme"].value
  /\ seen["scheme"].value \in {Unset, SourceScheme}
  /\ \A i \in 1..Len(tile_data_tuples) : tile_data_tuples[i].tile.scheme = SourceScheme

\* an archive whose scheme row was removed after scheme was first resolved
\* has loaded a tile and then answered scheme() again on a closed connection
C16_Witness ==
  /\ kind = "mbtiles"
  /\ ret.op = "scheme"
  /\ seen["scheme"].again
  /\ ret.value = PyStr(XYZ)
  /\ metadata["scheme"] = None
  /\ conn = "none"
  /\ tile_data_tuples # <<>>

(***************************************************************************)
(* Construction.  Before __init__ has run there is no instance (pc =       *)
(* "new"); a constructor that raises leaves none (pc = "failed").          *)
(***************************************************************************)
\* no document has been loaded
NoDoc == [scheme |-> None, name |-> None, id |-> None, tiles |-> <<>>, loaded |-> FALSE]

\* TileJSON.load(): the document read from the place, or None when it cannot be read
TileJSON_load == {Doc(TMS), Doc(XYZ), None}

\* a constructor that accepts any existing file
MBTilesSource_init_any_file(loc) ==
  IF ~loc.isfile THEN "RuntimeError" ELSE "ok"

\* MBTilesSource.__init__: the exception raised, or "ok"
MBTilesSource_init(loc) ==
  IF ~loc.isfile THEN "RuntimeError"
  ELSE IF ~loc.sqlite THEN "RuntimeError"
  ELSE "ok"

\* DirectorySource.__init__ up to the loading of metadata.json
DirectorySource_init(loc) ==
  IF ~loc.isdir THEN "RuntimeError"
  ELSE IF ~loc.metadata_json THEN "RuntimeError"
  ELSE "ok"

\* ServerSource.__init__ up to the loading of the document
ServerSource_init(loc) ==
  IF loc.text = <<>> THEN "RuntimeError"
  ELSE LET valid == IF loc.isfile THEN TRUE ELSE loc.reachable
       IN IF ~valid THEN "RuntimeError" ELSE "ok"

\* the constructor raised: the caller holds no instance
ConstructFails(exc) ==
  /\ pc' = "failed"
  /\ ret' = Raised("__init__", <<>>, exc)
  /\ UNCHANGED <<json, conn, cache, cancelling>>

\* the constructor of the class kind runs on the place given
Construct ==
  /\ pc = "new"
  /\ CASE kind = "mbtiles" ->
            LET r == MBTilesSource_init(location)
            IN IF r # "ok" THEN ConstructFails(r)
               ELSE /\ pc' = "idle"
                    /\ ret' = Returned("__init__", <<>>, None)
                    /\ conn' = "none"
                    /\ cache' = [k \in MetaKeys |-> Unset]
                    /\ cancelling' = FALSE
                    /\ UNCHANGED json
       [] OTHER ->
            LET r == IF kind = "server" THEN ServerSource_init(location)
                     ELSE DirectorySource_init(location)
            IN IF r # "ok" THEN ConstructFails(r)
               ELSE \E doc \in TileJSON_load :
                      IF doc = None THEN ConstructFails("LoadError")
                      ELSE /\ pc' = "idle"
                           /\ ret' = Returned("__init__", <<>>, None)
                           /\ json' = doc
                           /\ cancelling' = FALSE
                           /\ UNCHANGED <<conn, cache>>
  /\ UNCHANGED <<kind, stored, metadata, broken, location, args, tiles_to_load, rows,
                 index, tile_data_tuples, events, idleCancel, cancelledAt, queries, seen>>

\* the texts handed to the constructors: none, a URL, a path
PlaceTexts == {<<>>, Located("server").text, Located("mbtiles").text}

\* what can be true of a place: a file (SQLite or not), a directory (with
\* metadata.json or not), a reachable or unreachable URL, or nothing
Places ==
  {l \in {Place(t, f, d, q, mj, r) :
            t \in PlaceTexts, f \in BOOLEAN, d \in BOOLEAN, q \in BOOLEAN,
            mj \in BOOLEAN, r \in BOOLEAN} :
     /\ l.text = <<>> => ~(l.isfile \/ l.isdir \/ l.reachable)
     /\ l.text = Located("server").text => ~(l.isfile \/ l.isdir)
     /\ l.text = Located("mbtiles").text => ~l.reachable
     /\ ~(l.isfile /\ l.isdir)
     /\ l.sqlite => l.isfile
     /\ l.metadata_json => l.isdir}

InitConstruct ==
  /\ kind \in Backends
  /\ location \in Places
  /\ stored = [sl \in Slots |-> 0]
  /\ metadata \in {[k \in MetaKeys |-> IF k \in S THEN MetaText(k) ELSE None] :
                     S \in SUBSET (IF kind = "mbtiles" THEN {"scheme"} ELSE {})}
  /\ broken = {}
  /\ json = NoDoc
  /\ seen = Unseen({})
  /\ cancelling = FALSE
  /\ conn = "none"
  /\ cache = [k \in MetaKeys |-> Unset]
  /\ pc = "new"
  /\ NoCall
  /\ ret = NoRet
  /\ idleCancel = FALSE
  /\ queries = <<>>

NextConstruct ==
  \/ Construct
  \/ CallName
  \/ CallAnyScheme
  \/ CloseConnection
  \/ pc = "idle" /\ Cancel

\* sources are constructed on places of every sort, then queried
SpecConstruct == InitConstruct /\ [][NextConstruct]_vars

\* the cases in which the constructor of the class must fail
MustFail ==
  CASE kind = "mbtiles" -> ~location.isfile \/ ~location.sqlite
    [] kind = "directory" -> ~location.isdir \/ ~location.metadata_json
    [] OTHER -> location.text = <<>> \/ (~location.isfile /\ ~location.reachable)

\* C17: construction either yields a query-ready source or fails with an
\* error and yields no instance.  The archive fails when the path is not an
\* existing file or not an SQLite database, the directory source when the
\* directory or its metadata.json is missing, the remote source when the URL
\* is empty or neither an existing local file nor reachable; in these cases
\* no connection is opened and no metadata is loaded.
C17_ConstructionAllOrNothing ==
  /\ pc = "failed" =>
       /\ ret = Raised("__init__", <<>>, IF MustFail THEN "RuntimeError" ELSE "LoadError")
       /\ conn = "none"
       /\ ~json.loaded
       /\ cache = [k \in MetaKeys |-> Unset]
       /\ queries = <<>>
  /\ pc \notin {"new", "failed"} =>
       /\ ~MustFail
       /\ kind # "mbtiles" => json.loaded
       /\ ret.outcome # "raised"
  /\ MustFail => pc \in {"new", "failed"}

\* the archive constructor has rejected an existing file that is not SQLite
C17_Witness ==
  /\ pc = "failed"
  /\ kind = "mbtiles"
  /\ location.isfile
  /\ ~location.sqlite

(***************************************************************************)
(* Failing queries: the archive's accessors are called while its tables    *)
(* are dropped or damaged and restored.                                    *)
(***************************************************************************)
\* the accessors the callers of SpecFail use
FailProfiles == {{"attribution", "crs"}, {"scheme", "bounds"},
                 {"mask_level", "max_zoom"}, {"min_zoom", "attribution"}}

InitFail ==
  /\ kind = "mbtiles"
  /\ stored \in MemoStores
  /\ \E ops \in FailProfiles :
       /\ seen = Unseen(ops)
       /\ metadata \in {[k \in MetaKeys |-> IF k \in S THEN MetaText(k) ELSE None] :
                          S \in {{}, {KeyOf(op) : op \in ops}}}
  /\ broken \in SUBSET Tables
  /\ json = Doc(TMS)
  /\ location = Located(kind)
  /\ Constructed

NextFail ==
  \/ CallAttribution
  \/ CallCrs
  \/ CallSchemeUsed
  \/ CallBoundsUsed
  \/ CallMaskLevel
  \/ CallMinZoomUsed
  \/ CallMaxZoomUsed
  \/ BreakTable
  \/ CloseConnection

\* the archive's accessors on a store whose queries may fail
SpecFail == InitFail /\ [][NextFail]_vars

\* what an accessor is to return when its metadata query fails: the declared
\* default, the result of the tiles-table scan for the zooms, else None
FailValue(op) ==
  CASE op = "scheme" -> PyStr(TMS)
    [] op = "crs" -> PyStr(_DEFAULT_CRS)
    [] op = "attribution" -> PyStr(<<>>)
    [] op = "min_zoom" -> TableYield(FALSE)
    [] op = "max_zoom" -> TableYield(TRUE)
    [] OTHER -> None

\* C18: when the metadata query behind attribution(), crs(), scheme(),
\* bounds(), mask_level(), min_zoom() or max_zoom() fails, the accessor raises
\* nothing and returns None or its declared default ("tms", "EPSG:3857", the
\* empty string for attribution); min_zoom/max_zoom return what the scan of
\* the tiles table yields.
C18_BestEffort ==
  \A op \in CachedOps \cap DOMAIN seen :
    (ret.op = op /\ queries # <<>> /\ "metadata" \in broken)
    => (ret.outcome = "ok" /\ ret.value = FailValue(op))

(***************************************************************************)
(* The events of a load_tiles call, checked under Spec.                    *)
(***************************************************************************)
\* the positions in the event log of the events with a name
Positions(name) == {i \in 1..Len(events) : events[i].name = name}

\* the call has passed the point where its fetch loop starts, or has ended
PastPrepare == pc = "fetch" \/ LoadReturned

\* C19: in every backend, each load_tiles call emits max_progress_changed
\* with the number of tiles about to be fetched and message_changed, both
\* before its first progress_changed event.
C19_ProgressAnnounced ==
  PastPrepare =>
    /\ \E i \in Positions("max_progress_changed") :
         \A k \in Positions("progress_changed") : i < k
    /\ \E j \in Positions("message_changed") :
         \A k \in Positions("progress_changed") : j < k

\* the progress values of the call, in the order emitted
ProgressValues ==
  LET ps == SelectSeq(events, LAMBDA e : e.name = "progress_changed")
  IN [i \in 1..Len(ps) |-> ps[i].arg]

\* C20: within one load_tiles call of the archive or directory backend the
\* progress values are strictly increasing, there is one progress event per
\* tile appended to the result and none for a tile not retrieved, and when
\* the call was not cancelled the last progress value equals the maximum
\* reported for the call.
C20_ProgressPerTile ==
  (kind \in {"mbtiles", "directory"} /\ PastPrepare) =>
    /\ \A i, j \in 1..Len(ProgressValues) : i < j => ProgressValues[i] < ProgressValues[j]
    /\ Len(ProgressValues) = Len(tile_data_tuples)
    /\ (LoadReturned /\ ~CancelledInFlight) =>
         \A m \in Positions("max_progress_changed") :
           /\ ProgressValues # <<>>
           /\ ProgressValues[Len(ProgressValues)] = events[m].arg

(***************************************************************************)
(* Termination of load_tiles.  The thread that runs load_tiles keeps       *)
(* running: each step of the call that can be taken is eventually taken.   *)
(***************************************************************************)
Loading == pc \in {"select", "fetch"}

Idle == pc = "idle"

\* the preparation of the call, of whichever class
Prepare == ServerPrepare \/ MBTilesPrepare \/ DirectoryPrepare

\* the preparation can run: it is guarded by the position of the call and by
\* the class only, and the selector always returns a list
PrepareEnabled == pc = "select"

\* weak fairness of each step of the call; for Prepare it is written out,
\* WF_vars(A) being []<>~(ENABLED <<A>>_vars) \/ []<><<A>>_vars
Running ==
  /\ ([]<>(~PrepareEnabled) \/ []<><<Prepare>>_vars)
  /\ WF_vars(FetchItem)
  /\ WF_vars(LoadTilesReturn)

InitLive ==
  /\ kind \in Backends
  /\ stored \in LifeStores(kind)
  /\ metadata = NoMetadata
  /\ broken \in (IF kind = "mbtiles" THEN {{}, {"tiles"}} ELSE {{}})
  /\ json = Doc(TMS)
  /\ location = Located(kind)
  /\ seen = Unseen({})
  /\ Constructed

\* the load specification with a load_tiles thread that keeps running
SpecLive == InitLive /\ [][Next]_vars /\ Running

\* C21: a source is Idle or Loading; it leaves Idle only by entering
\* load_tiles, with the cancellation flag cleared; every load_tiles call
\* eventually returns the source to Idle, by success, cancellation or error;
\* and an idle source whose result was taken accepts a new load_tiles call.
C21_LoadTerminates ==
  /\ [](Idle \/ Loading)
  /\ [][(Idle /\ pc' # pc) => (pc' = "select" /\ ~cancelling')]_vars
  /\ Loading ~> Idle
  /\ []((Idle /\ ret.op = "none") => ENABLED LoadTilesEnter)

\* a second call is loading on an archive whose connection an earlier call opened
C21_Witness ==
  /\ kind = "mbtiles"
  /\ pc = "select"
  /\ conn = "open"

(***************************************************************************)
(* The archive's database handle: accessors, loads, cancels and            *)
(* close_connection() in any order, counting the handles that are open.    *)
(***************************************************************************)
InitHandle ==
  /\ kind = "mbtiles"
  /\ stored \in MemoStores
  /\ metadata \in {[k \in MetaKeys |-> IF k \in S THEN MetaText(k) ELSE None] :
                     S \in SUBSET LifeKeys}
  /\ broken \in {{}, {"metadata"}}
  /\ json = Doc(TMS)
  /\ location = Located(kind)
  /\ seen = [op \in {"handles"} |-> [value |-> PyInt(0), again |-> FALSE]]
  /\ Constructed

NextHandle ==
  \/ CallScheme
  \/ CallMinZoom
  \/ Cancel
  \/ LoadTilesEnter
  \/ MBTilesPrepare
  \/ FetchItem
  \/ LoadTilesReturn
  \/ ResultTaken
  \/ CloseConnection

\* an archive whose open handles are counted
SpecHandle == InitHandle /\ [][NextHandle]_vars

\* the database handles the instance has open
handles == IntOf(seen["handles"].value)

\* what a step does to the handle
HandleStep ==
  CASE conn = "none" /\ conn' = "open" -> handles' = 1 /\ queries' # <<>>
    [] conn = "open" /\ conn' = "open" -> handles' = handles
    [] conn = "open" /\ conn' = "none" -> handles' = 0 /\ ret'.op = "close_connection"
    [] OTHER -> handles' = 0 /\ (queries' = <<>> \/ UNCHANGED <<queries, index>>)

Punctuation == {"{", "}", "[", "]", ":", ","}

PyList(items) == [tag |-> "list", val |-> items]

\* the text does not parse
NoParse == [ok |-> FALSE, value |-> None, next |-> 0]

RECURSIVE ParseItems(_, _, _)
\* the items of an array whose opening bracket precedes token i
ParseItems(toks, i, acc) ==
  IF i > Len(toks) THEN NoParse
  ELSE IF toks[i] = "]" /\ acc = <<>>
       THEN [ok |-> TRUE, value |-> PyList(acc), next |-> i + 1]
  ELSE IF toks[i] \in Punctuation \/ i + 1 > Len(toks) THEN NoParse
  ELSE IF toks[i + 1] = "]"
       THEN [ok |-> TRUE, value |-> PyList(Append(acc, PyStr(<<toks[i]>>))), next |-> i + 2]
  ELSE IF toks[i + 1] = ","
       THEN ParseItems(toks, i + 2, Append(acc, PyStr(<<toks[i]>>)))
  ELSE NoParse

\* the value that starts at token i: an array of strings, or a string
ParseValue(toks, i) ==
  IF i > Len(toks) THEN NoParse
  ELSE IF toks[i] = "[" THEN ParseItems(toks, i + 1, <<>>)
  ELSE IF toks[i] \in Punctuation THEN NoParse
  ELSE [ok |-> TRUE, value |-> PyStr(<<toks[i]>>), next |-> i + 1]

RECURSIVE ParseMembers(_, _, _)
\* the members of an object from token i on, added to obj; a repeated key
\* keeps its last value
ParseMembers(toks, i, obj) ==
  IF i + 2 > Len(toks) \/ toks[i] \in Punctuation \/ toks[i + 1] # ":" THEN NoParse
  ELSE LET v == ParseValue(toks, i + 2)
           o == (toks[i] :> v.value) @@ obj
       IN IF ~v.ok \/ v.next > Len(toks) THEN NoParse
          ELSE IF toks[v.next] = "}"
               THEN [ok |-> TRUE, value |-> PyDict(o), next |-> v.next + 1]
          ELSE IF toks[v.next] = "," THEN ParseMembers(toks, v.next + 1, o)
          ELSE NoParse

\* json.loads(text), for texts that hold an object or an array: the value, or
\* the exception raised
json_loads(text) ==
  IF text.tag # "str" THEN [exc |-> "TypeError", value |-> None]
  ELSE LET toks == text.val
           r == IF toks = <<"{", "}">> THEN [ok |-> TRUE, value |-> PyDict(<<>>), next |-> 3]
                ELSE IF toks # <<>> /\ toks[1] = "{" THEN ParseMembers(toks, 2, <<>>)
                ELSE IF toks # <<>> /\ toks[1] = "[" THEN ParseItems(toks, 2, <<>>)
                ELSE NoParse
       IN IF r.ok /\ r.next = Len(toks) + 1
          THEN [exc |-> "none", value |-> r.value]
          ELSE [exc |-> "JSONDecodeError", value |-> None]

\* "vector_layers" in json_data, for a dict or a list
HasLayersKey(json_data) ==
  IF json_data.tag = "dict" THEN "vector_layers" \in DOMAIN json_data.val[1]
  ELSE PyStr(<<"vector_layers">>) \in Range(json_data.val)

\* json_data["vector_layers"]: the value, or the exception raised
LayersOf(json_data) ==
  IF json_data.tag # "dict" THEN [exc |-> "TypeError", value |-> None]
  ELSE IF "vector_layers" \notin DOMAIN json_data.val[1] THEN [exc |-> "KeyError", value |-> None]
  ELSE [exc |-> "none", value |-> json_data.val[1]["vector_layers"]]

\* MBTilesSource.vector_layers
MBTilesSource_vector_layers(c) ==
  LET r == _get_metadata_value(c, "json", None)
      j == json_loads(r.value)
      l == LayersOf(j.value)
      out(exc, value) == [exc |-> exc, value |-> value, cache |-> r.cache, queries |-> r.queries]
  IN IF ~PyTruthy(r.value) THEN out("none", PyList(<<>>))
     ELSE IF j.exc # "none" THEN out(j.exc, None)
     ELSE IF HasLayersKey(j.value) THEN out(l.exc, l.value)
     ELSE out("none", PyList(<<>>))

\* TileJSON.get_value(key, is_required=False): the field, None when absent
TileJSON_get_value(key) == json[key]

\* DirectorySource.vector_layers
DirectorySource_vector_layers ==
  LET layers == TileJSON_get_value("vector_layers")
      j == json_loads(TileJSON_get_value("json"))
      l == LayersOf(j.value)
      out(exc, value) == [exc |-> exc, value |-> value, cache |-> cache, queries |-> <<>>]
  IN IF PyTruthy(layers) THEN out("none", layers)
     ELSE IF j.exc # "none" THEN out(j.exc, None)
     ELSE IF l.exc # "none" THEN out(l.exc, None)
     ELSE IF ~PyTruthy(l.value) THEN out("RuntimeError", None)
     ELSE out("none", l.value)

\* vector_layers() is called on an archive or a directory
CallVectorLayers ==
  /\ pc = "idle"
  /\ kind # "server"
  /\ LET r == IF kind = "mbtiles" THEN MBTilesSource_vector_layers(cache)
               ELSE DirectorySource_vector_layers
     IN /\ ret' = IF r.exc = "none" THEN Returned("vector_layers", <<>>, r.value)
                   ELSE Raised("vector_layers", <<>>, r.exc)
        /\ cache' = r.cache
        /\ conn' = IF r.queries # <<>> THEN _connect_to_db ELSE conn
        /\ queries' = r.queries
        /\ seen' = Opened(seen, conn, r.queries)
  /\ UNCHANGED <<envVars, cancelling, callVars, idleCancel, cancelledAt>>

\* the JSON texts of the model: objects with and without a vector_layers
\* array, an array, and a text that is cut short
JsonTexts ==
  {PyStr(t) : t \in {<<"{", "}">>,
                     <<"{", "id", ":", "osm", "}">>,
                     <<"{", "vector_layers", ":", "[", "]", "}">>,
                     <<"{", "vector_layers", ":", "[", "water", ",", "roads", "]", "}">>,
                     <<"{", "id", ":", "osm", ",", "vector_layers", ":", "[", "water", "]", "}">>,
                     <<"[", "vector_layers", "]">>,
                     <<"{", "id", ":">>}}

\* the vector_layers fields of the model's documents
LayerFields == {None, PyList(<<>>), PyList(<<PyStr(<<"water">>)>>)}

InitLayers ==
  /\ kind \in {"mbtiles", "directory"}
  /\ stored = [sl \in Slots |-> 0]
  /\ IF kind = "mbtiles"
     THEN /\ metadata \in {[NoMetadata EXCEPT !["json"] = t] : t \in JsonTexts \cup {None}}
          /\ json = Doc(TMS)
     ELSE /\ metadata = NoMetadata
          /\ json \in {[Doc(TMS) EXCEPT !.vector_layers = vl, !.json = t] :
                          vl \in LayerFields, t \in JsonTexts \cup {None}}
  /\ broken = {}
  /\ location = Located(kind)
  /\ seen = Unseen({})
  /\ Constructed

NextLayers ==
  \/ CallVectorLayers
  \/ CallAnyScheme
  \/ CloseConnection
  \/ Cancel
  \/ ResultTaken

\* archives and directories asked for their vector layers
SpecLayers == InitLayers /\ [][NextLayers]_vars

\* the text holds a JSON object that has no vector_layers member
ObjectWithoutLayers(text) ==
  /\ json_loads(text).exc = "none"
  /\ json_loads(text).value.tag = "dict"
  /\ "vector_layers" \notin DOMAIN json_loads(text).value.val[1]

\* C23: vector_layers() of an archive returns an empty list, raising nothing,
\* when the metadata table has no json row or the json document has no
\* vector_layers array; vector_layers() of a directory raises RuntimeError
\* whenever the metadata document holds no vector_layers array, neither as a
\* field nor inside its json field.
C23_VectorLayersContract ==
  ret.op = "vector_layers" =>
    /\ (kind = "mbtiles" /\ (metadata["json"] = None \/ ObjectWithoutLayers(metadata["json"])))
         => ret = Returned("vector_layers", <<>>, PyList(<<>>))
    /\ (kind = "directory" /\ json.vector_layers = None
           /\ (json.json = None \/ ObjectWithoutLayers(json.json)))
         => ret = Raised("vector_layers", <<>>, "RuntimeError")

(***************************************************************************)
(* load_tiles of an archive, whose tiles table may be unreadable.          *)
(***************************************************************************)
InitArchive ==
  /\ kind = "mbtiles"
  /\ stored \in Stores(kind)
  /\ metadata = NoMetadata
  /\ broken \in {{}, {"tiles"}}
  /\ json = Doc(TMS)
  /\ location = Located(kind)
  /\ seen = Unseen({})
  /\ Constructed

NextArchive ==
  \/ Cancel
  \/ LoadTilesEnter
  \/ MBTilesPrepare
  \/ FetchItem
  \/ LoadTilesReturn
  \/ ResultTaken

\* an archive that loads tiles
SpecArchive == InitArchive /\ [][NextArchive]_vars

\* the tiles the COUNT query can see at zoom level z: the rows of a readable
\* tiles table, whatever their column and row
CountableAt(z) ==
  IF "tiles" \in broken THEN 0 ELSE Sum(stored, {sl \in Slots : sl[1] = z})

\* the call in flight is past the emission, or has returned
PastLimitCheck == pc = "fetch" \/ ret.op = "load_tiles"

\* C24: a load_tiles call of an archive emits tile_limit_reached exactly when
\* max_tiles is given and the archive stores more than max_tiles tiles at
\* zoom_level, whatever the requested coordinates and the cap applied to
\* them; it emits it once, never twice.
C24_ArchiveLimitByCount ==
  PastLimitCheck =>
    Count(events, "tile_limit_reached") =
      (IF args.max_tiles # None /\ CountableAt(args.zoom_level) > IntOf(args.max_tiles)
       THEN 1 ELSE 0)

C24_Witness ==
  /\ ret.op = "load_tiles" /\ ret.outcome = "ok"
  /\ Count(events, "tile_limit_reached") = 1
  /\ Len(args.tiles_to_load) <= IntOf(args.max_tiles)
  /\ CountableAt(args.zoom_level) > IntOf(args.max_tiles)

\* tile_limit_reached events of the call in flight, or of the call that returned last
LimitEvents == Count(events, "tile_limit_reached")

C26_ArchiveLoopCap ==
  args.max_tiles # None =>
    /\ Len(tile_data_tuples) <= IntOf(args.max_tiles)
    /\ (ret.op = "load_tiles" /\ ret.outcome = "ok")
         => Len(ret.value) <= IntOf(args.max_tiles)

C26_Witness ==
  /\ ret.op = "load_tiles" /\ ret.outcome = "ok" /\ args.max_tiles # None
  /\ Len(rows) > IntOf(args.max_tiles)
  /\ Len(ret.value) = IntOf(args.max_tiles)
  /\ ~cancelling

\* C27: a load_tiles call of an archive whose tile SELECT and COUNT queries
\* fail raises nothing, whatever max_tiles, and returns the empty list.
C27_QueryFailureContained ==
  (ret.op = "load_tiles" /\ "tiles" \in broken)
  => (ret.outcome = "ok" /\ ret.value = <<>>)

\* C28: the list a load_tiles call returns, in any backend and on any store,
\* holds no two entries with the same tile identity (scheme, zoom, column,
\* row); the requests of the model are lists of distinct (column, row) pairs.
C28_DistinctIdentities ==
  (LoadReturned /\ ret.outcome = "ok")
  => \A i, j \in 1..Len(ret.value) : ret.value[i].tile = ret.value[j].tile => i = j

(***************************************************************************)
(* Remote load_tiles on requests longer than the list of subdomains.       *)
(***************************************************************************)
\* requests that run through the (column, row) pairs of the grid a second time
LongRequests ==
  {SubSeq(CoordSeq \o CoordSeq, 1, n) : n \in (Len(CoordSeq) + 1)..(Len(CoordSeq) + Len(CoordSeq))}

\* load_tiles is called with such a request
LoadTilesEnterLong == LoadTilesCalled(LongRequests)

InitSubdomain ==
  /\ kind = "server"
  /\ stored \in MemoStores
  /\ metadata = NoMetadata
  /\ broken = {}
  /\ json = Doc(XYZ)
  /\ location = Located(kind)
  /\ seen = Unseen({})
  /\ Constructed

NextSubdomain ==
  \/ Cancel
  \/ LoadTilesEnter
  \/ LoadTilesEnterLong
  \/ ServerPrepare
  \/ FetchItem
  \/ LoadTilesReturn
  \/ ResultTaken

\* a remote source whose template names a subdomain
SpecSubdomain == InitSubdomain /\ [][NextSubdomain]_vars

\* the list the URLs are built for: tiles_to_load, or its max_tiles tiles
\* nearest the centre when it is longer than max_tiles
CappedList(sel) ==
  IF args.max_tiles # None /\ Len(args.tiles_to_load) > IntOf(args.max_tiles)
  THEN /\ Len(sel) <= IntOf(args.max_tiles)
       /\ \A n \in 1..Len(sel) : sel[n] \in Range(args.tiles_to_load)
  ELSE sel = args.tiles_to_load

\* the character of a request URL that stands where the template
\* http://{s}.t/{z}/{x}/{y}.pbf has its subdomain
SubdomainOf(url) == url[Len(<<"h", "t", "t", "p", ":", "/", "/">>) + 1]

\* C29: remote load_tiles builds exactly one request URL per tile of the
\* (possibly capped) list, in the order of the list; with a {s} template the
\* i-th tile, counted from 0, gets the subdomain at position i mod 4 of
\* a, b, c, d; and the one progress maximum announced is the number of URLs.
C29_OneUrlPerTile ==
  UrlsBuilt =>
    LET sel == [n \in 1..Len(queries) |-> <<queries[n].col, queries[n].row>>]
    IN
      /\ CappedList(sel)
      /\ \A n \in 1..Len(queries) :
           SubdomainOf(queries[n].url) = <<"a", "b", "c", "d">>[((n - 1) % 4) + 1]
      /\ \A i \in Positions("max_progress_changed") : events[i].arg = Len(queries)
      /\ Cardinality(Positions("max_progress_changed")) = 1

C29_Witness ==
  /\ UrlsBuilt /\ Len(queries) > 4
  /\ SubdomainOf(queries[4].url) = "d"
  /\ SubdomainOf(queries[5].url) = "a"
  /\ events[1] = Event("max_progress_changed", Len(queries))

(***************************************************************************)
(* close_connection() between the operations of a source of any class.     *)
(***************************************************************************)
InitClose ==
  /\ kind \in Backends
  /\ stored \in MemoStores
  /\ metadata \in {[k \in MetaKeys |-> IF k \in S THEN MetaText(k) ELSE None] :
                     S \in SUBSET (IF kind = "mbtiles" THEN LifeKeys ELSE {})}
  /\ broken = {}
  /\ json = Doc(TMS)
  /\ location = Located(kind)
  /\ seen = [op \in {"handles"} |-> [value |-> PyInt(0), again |-> FALSE]]
  /\ Constructed

NextClose ==
  \/ CallAnyScheme
  \/ CallMinZoom
  \/ Cancel
  \/ LoadTilesEnter
  \/ Prepare
  \/ FetchItem
  \/ LoadTilesReturn
  \/ ResultTaken
  \/ CloseConnection

\* sources that are closed between their operations
SpecClose == InitClose /\ [][NextClose]_vars

\* the step is a call of close_connection()
CloseStep == ret'.op = "close_connection" /\ (ret' # ret \/ conn' # conn)

\* what close_connection() does: it returns, the handle is absent, and nothing
\* else of the source has changed
CloseEffect ==
  /\ ret'.outcome = "ok"
  /\ conn' = "none" /\ handles' = 0
  /\ UNCHANGED <<cache, cancelling, envVars, callVars, idleCancel, cancelledAt>>

\* the step is an accessor of the archive that sends a query while no handle is held
QueryWithoutHandle ==
  /\ kind = "mbtiles" /\ conn = "none"
  /\ ret'.op \in {"scheme", "min_zoom"} /\ queries' # <<>>
  /\ <<ret, queries, cache>>' # <<ret, queries, cache>>

====
